---------------------------- MODULE Spec2Model ----------------------------
(***************************************************************************)
(* Verification model of the validators-monitoring core:                   *)
(*   - the consensus-layer client (Eth2Client) header / missed-slot logic, *)
(*   - the driver loop of InspectorService (epoch scheduling),             *)
(*   - ClickhouseService.writeAttestations (attestation inclusion),        *)
(*   - the critical alert rules and CriticalAlertsService,                 *)
(*   - SummaryService (per-epoch aggregation by lodash merge).             *)
(*   - FileSourceService (the validators registry read from a file).       *)
(* Every component has a specification of its own over the shared          *)
(* variables; the variables of the components it does not call stay at     *)
(* their idle values.  Asynchronous handlers advance await by await, so    *)
(* that the chain, the clock and the network act between their steps.      *)
(***************************************************************************)
EXTENDS Integers, Sequences, FiniteSets, TLC

VARIABLES
    \* ---- finalized chain served by the consensus-layer API
    blocks,          \* slots that hold a block (slot 0, genesis, always does)
    chainLen,        \* slots 0..chainLen-1 are finalized
    \* ---- Eth2Client: the last call and its outcome
    call,
    \* ---- Eth2Client, request by request
    view,            \* the answers the API serves for the block roots
    walk,            \* the running checkSlotIsMissed call
    probe,           \* the running slot search (header or block info)
    req,             \* the running retryRequest call
    dutyReq,         \* the running getCanonical{Attester,Proposer}Duties call
    \* ---- InspectorService driver loop
    config,          \* START_SLOT, FETCH_INTERVAL_SLOTS
    latestSlotInDb,  \* dataProcessor.latestSlotInDb
    pc,              \* position of startLoop inside the current cycle
    nextFinalizedSlot,
    latestFinalizedBeaconBlock,  \* the finalized header the running wait has read
    waitRes,         \* { slotToWrite, stateRoot, slotNumber } of the cycle
    handed,          \* history: the last slotToWrite given to processing (-1: none)
    processed,       \* history: slots whose processing succeeded
    \* ---- ClickhouseService.writeAttestations
    attDutyResult,   \* attestersDutyInfo, blocksAttestations, allMissedSlots
    rows,            \* rows committed to stats.validator_attestations
    writer,          \* the running writeAttestations call: chunk and insert stream
    \* ---- CriticalAlertsService and the alert rules
    now,             \* Date.now(), in hours
    baseUrl,         \* CRITICAL_ALERTS_ALERTMANAGER_URL ('' when not set)
    sentAlerts,      \* alertname -> the PreparedToSendAlert recorded last
    alertCycle,      \* position of send() inside the alert cycle
    lastToSend,      \* the evaluation made by the latest toSend() call
    delivery,        \* alertname -> the POSTs made to the alertmanager, oldest first
    \* ---- SummaryService
    storage,         \* validator index -> ValidatorDutySummary
    inserted,        \* the keys of the storage Map in insertion order
    meta,            \* EpochMeta
    lastOp,          \* history: the latest call and its arguments
    opCount,         \* history: number of calls made
    \* ---- FileSourceService (validators registry read from a file)
    registry         \* data, lastSuccessDataReadTimestamp, and the calls made

chainVars == <<blocks, chainLen>>
clientVars == <<call, view, walk, probe, req, dutyReq>>
loopVars ==
    <<config, latestSlotInDb, pc, nextFinalizedSlot, latestFinalizedBeaconBlock, waitRes,
      handed, processed>>
attVars == <<attDutyResult, rows, writer>>
alertVars == <<now, baseUrl, sentAlerts, alertCycle, lastToSend, delivery>>
summaryVars == <<storage, inserted, meta, lastOp, opCount>>
registryVars == <<registry>>
vars == <<chainVars, clientVars, loopVars, attVars, alertVars, summaryVars, registryVars>>

------------------------------------------------------------------------------
(* Bounds of the model *)

\* largest count in a row of operator statistics
MaxVal == 2

\* hours the clock may run past its start
MaxElapsed == 8

\* POSTs of one alert after which a run starts no further send
MaxPosts == 2

\* calls made to the SummaryService
MaxOps == 3

\* highest slot the finalized chain may reach
MaxSlot == 6

\* largest configured START_SLOT and largest slot found in the DB at start
MaxStartSlot == 2

\* largest configured FETCH_INTERVAL_SLOTS (slots per epoch)
MaxStep == 3

\* highest slot of a candidate block or missed slot given to writeAttestations
MaxAttSlot == 2

\* most attestations carried by the candidate blocks altogether
MaxAtts == 2

------------------------------------------------------------------------------
(* Small helpers *)

SetMax(S) == CHOOSE x \in S : \A y \in S : y <= x

SetMin(S) == CHOOSE x \in S : \A y \in S : x <= y

------------------------------------------------------------------------------
(* The consensus-layer API: a finalized chain.  A block is identified by   *)
(* its slot; its roots are tokens naming that slot; the parent root names  *)
(* the nearest earlier block (-1: none, for genesis).                      *)

NoRoot == -1

ParentOf(s) ==
    IF \E b \in blocks : b < s THEN SetMax({b \in blocks : b < s}) ELSE NoRoot

\* ShortBeaconBlockHeader built by getBeaconBlockHeader from the response
Header(s) ==
    [slotNumber |-> s, stateRoot |-> s, blockRoot |-> s, parentRoot |-> ParentOf(s)]

NoHeader == [slotNumber |-> -1, stateRoot |-> -1, blockRoot |-> -1, parentRoot |-> -1]

\* what a lookup by getBeaconBlockHeader may name: a slot or the "finalized"
\* tag (lookups by block root are served by a view, see ViewOf)
SlotId(s) == [k |-> "slot", v |-> s]

FinalizedId == [k |-> "finalized", v |-> 0]

\* outcomes of a call: a value, or a thrown error with its $httpCode
\* (404: no block; 500: any other request failure; 0: a plain Error)
Ok(h) == [kind |-> "ok", code |-> 200, header |-> h, isMissed |-> FALSE]

Err(c) == [kind |-> "err", code |-> c, header |-> NoHeader, isMissed |-> FALSE]

\* getBeaconBlockHeader: the final outcome of the header request after the
\* retry policy; `faults` are the lookups the API fails with a non-404 error.
getBeaconBlockHeader(id, faults) ==
    IF id \in faults THEN Err(500)
    ELSE IF id.k = "finalized" THEN Ok(Header(SetMax(blocks)))
    ELSE IF id.v \in blocks THEN Ok(Header(id.v))
    ELSE Err(404)

defaultMaxDeep == 32

RECURSIVE getNextNotMissedBlockHeader(_, _, _)
getNextNotMissedBlockHeader(slot, maxDeep, faults) ==
    LET r == getBeaconBlockHeader(SlotId(slot), faults) IN
    IF r.kind = "ok" THEN r
    ELSE IF r.code # 404 THEN r
    ELSE IF maxDeep < 1 THEN r
    ELSE getNextNotMissedBlockHeader(slot + 1, maxDeep - 1, faults)

RECURSIVE getPreviousNotMissedBlockHeader(_, _, _)
getPreviousNotMissedBlockHeader(slot, maxDeep, faults) ==
    LET r == getBeaconBlockHeader(SlotId(slot), faults) IN
    IF r.kind = "ok" THEN r
    ELSE IF r.code # 404 THEN r
    ELSE IF maxDeep < 1 THEN r
    ELSE getPreviousNotMissedBlockHeader(slot - 1, maxDeep - 1, faults)

------------------------------------------------------------------------------
(* Idle values: what a component's variables hold while another            *)
(* component's specification runs.                                         *)

NoCall == [op |-> "none", slot |-> 0, faults |-> {}, res |-> Err(0)]

NoWait == [kind |-> "none", slotToWrite |-> 0, stateRoot |-> NoRoot, slotNumber |-> 0]

InitChain == blocks = {0} /\ chainLen = 1

IdleWalk ==
    [pc |-> "idle", slotNumber |-> 0, first |-> NoHeader, someNextBlock |-> NoHeader,
     path |-> <<>>, lookups |-> 0, res |-> Err(0)]

IdleProbe ==
    [pc |-> "idle", op |-> "none", slot |-> 0, maxDeep |-> 0, faults |-> {},
     probed |-> <<>>, answers |-> <<>>, res |-> Err(0)]

\* an HTTP answer to one request: 200, 404, or any other failure (500)
Answer(c) == [code |-> c]

NoAnswer == Answer(0)

IdleReq ==
    [pc |-> "idle", maxRetries |-> 0, fallbackCondition |-> "always", backup |-> "",
     left |-> 0, log |-> <<>>, res |-> NoAnswer]

IdleDuty ==
    [pc |-> "idle", op |-> "none", dependentRoot |-> 0, maxRetries |-> 0,
     left |-> 0, responses |-> <<>>, res |-> [kind |-> "none"]]

IdleSteps ==
    /\ view = <<>>
    /\ walk = IdleWalk
    /\ probe = IdleProbe
    /\ req = IdleReq
    /\ dutyReq = IdleDuty

IdleClient == call = NoCall /\ IdleSteps

IdleLoop ==
    /\ config = [START_SLOT |-> 0, FETCH_INTERVAL_SLOTS |-> 1]
    /\ latestSlotInDb = 0
    /\ pc = "idle"
    /\ nextFinalizedSlot = 0
    /\ latestFinalizedBeaconBlock = NoHeader
    /\ waitRes = NoWait
    /\ handed = -1
    /\ processed = {}

\* no writeAttestations call is running
IdleWriter == [pc |-> "idle", chunkSize |-> 0, chunk |-> <<>>, ws |-> <<>>, outcome |-> "none"]

IdleAtt ==
    /\ attDutyResult = [attestersDutyInfo |-> <<>>, blocksAttestations |-> <<>>,
                        allMissedSlots |-> <<>>]
    /\ rows = <<>>
    /\ writer = IdleWriter

\* 6 * 60 * 60 * 1000 ms, in hours
defaultInterval == 6

\* 60 * 60 * 1000 ms, in hours
ifIncreasedInterval == 1

\* 3600000 ms, in hours: older data suppresses the alerts
maxSlotTimeDiff == 1

\* Date.now() lies far more than the default interval after the epoch
StartTime == defaultInterval + 1

\* the alerts getter of CriticalAlertsService, in the order of the loop of
\* send
alerts ==
    <<"CriticalNegativeDelta", "CriticalMissedProposes", "CriticalMissedAttestations",
      "CriticalSlashing">>

\* the alerts getter of the service whose sendCriticalAlerts the loop calls
sendCriticalAlerts_alerts ==
    <<"CriticalNegativeDelta", "CriticalMissedProposes", "CriticalMissedAttestations">>

alertsOf(service) ==
    IF service = "sendCriticalAlerts" THEN sendCriticalAlerts_alerts ELSE alerts

AlertNames == {alerts[i] : i \in 1..Len(alerts)}

\* the alerts whose alertRule and sendRule are among the sources
SourceAlertNames == {"CriticalNegativeDelta", "CriticalMissedProposes"}

Undefined == [kind |-> "undefined"]

\* no POST was made for the alert
NoPost == <<>>

\* slotTimeDiff: prometheus.getSlotTimeDiffWithNow() as the latest send read it
IdleCycle ==
    [pc |-> "idle", service |-> "none", idx |-> 0, count |-> 0, outcome |-> "none",
     slotTimeDiff |-> 0]

\* an empty plain object
EmptyObject == [kind |-> "object", f |-> <<>>]

NoOp == [op |-> "none"]

IdleSummary ==
    /\ storage = <<>>
    /\ inserted = <<>>
    /\ meta = EmptyObject
    /\ lastOp = NoOp
    /\ opCount = 0

\* the fields of a new FileSourceService: declared, not assigned
NewRegistry ==
    [data |-> Undefined, lastSuccessDataReadTimestamp |-> Undefined, clock |-> 0,
     last |-> [op |-> "none"]]

IdleRegistry == registry = NewRegistry

IdleAlert ==
    /\ now = StartTime
    /\ baseUrl = ""
    /\ sentAlerts = [a \in AlertNames |-> Undefined]
    /\ alertCycle = IdleCycle
    /\ lastToSend = Undefined
    /\ delivery = [a \in AlertNames |-> NoPost]

------------------------------------------------------------------------------
(* The chain finalizes one more slot, with or without a block in it.       *)

ChainAdvance ==
    /\ chainLen <= MaxSlot
    /\ \E hasBlock \in BOOLEAN :
        blocks' = IF hasBlock THEN blocks \cup {chainLen} ELSE blocks
    /\ chainLen' = chainLen + 1
    /\ UNCHANGED <<call, view, walk, probe, req, dutyReq>>
    /\ UNCHANGED <<loopVars, attVars, alertVars, summaryVars, registryVars>>

------------------------------------------------------------------------------
(* Eth2Client calls against the current chain.                             *)

\* the caller has consumed the outcome
Return ==
    /\ call.op # "none"
    /\ call.pc = "done"
    /\ call' = NoCall
    /\ UNCHANGED <<view, walk, probe, req, dutyReq>>
    /\ UNCHANGED <<chainVars, loopVars, attVars, alertVars, summaryVars, registryVars>>

------------------------------------------------------------------------------
(* checkSlotIsMissed, invocation by invocation, against any view the API   *)
(* may serve: every block root is answered with some header (whose parent  *)
(* root names any root, consistent with the slots or not), with a 404 or   *)
(* with another request failure.                                           *)

\* highest block root token of a view
MaxRoot == 1

\* highest slot number a header of a view carries
MaxViewSlot == 3

ViewRoots == 0..MaxRoot

\* the header the view may serve for block root r
ViewHeaders(r) ==
    {[slotNumber |-> s, stateRoot |-> r, blockRoot |-> r, parentRoot |-> p] :
        s \in 0..MaxViewSlot, p \in ViewRoots}

ViewAnswers(r) == {Err(404), Err(500)} \cup {Ok(h) : h \in ViewHeaders(r)}

Views == {v \in [ViewRoots -> UNION {ViewAnswers(r) : r \in ViewRoots}] :
             \A r \in ViewRoots : v[r] \in ViewAnswers(r)}

\* the "next" header handed to checkSlotIsMissed: a block of its own
NextHeaders == ViewHeaders(MaxRoot + 1)

\* getBeaconBlockHeader(root) against the view v: the final outcome of the
\* header request
getBeaconBlockHeaderIn(v, root) ==
    IF root \in DOMAIN v THEN v[root] ELSE Err(404)

\* mutant: the walk stops at the first header not above the slot and calls
\* the slot missed
checkSlotIsMissedOnceMissedOnEqual(slotNumber, someNextBlock, v) ==
    IF slotNumber > someNextBlock.slotNumber
    THEN [then |-> "throw", lookup |-> FALSE, res |-> Err(0)]
    ELSE IF slotNumber = someNextBlock.slotNumber
    THEN [then |-> "return", lookup |-> FALSE, res |-> Ok(someNextBlock)]
    ELSE
        LET r == getBeaconBlockHeaderIn(v, someNextBlock.parentRoot) IN
        IF r.kind = "err" THEN [then |-> "throw", lookup |-> TRUE, res |-> r]
        ELSE IF slotNumber >= r.header.slotNumber
        THEN [then |-> "return", lookup |-> TRUE,
              res |-> [Ok(r.header) EXCEPT !.isMissed = TRUE]]
        ELSE [then |-> "recurse", lookup |-> TRUE, res |-> r]

\* mutant: the slot of the next block is not compared with the slot first
checkSlotIsMissedOnceNoGuard(slotNumber, someNextBlock, v) ==
    IF slotNumber = someNextBlock.slotNumber
    THEN [then |-> "return", lookup |-> FALSE, res |-> Ok(someNextBlock)]
    ELSE
        LET r == getBeaconBlockHeaderIn(v, someNextBlock.parentRoot) IN
        IF r.kind = "err" THEN [then |-> "throw", lookup |-> TRUE, res |-> r]
        ELSE IF slotNumber = r.header.slotNumber
        THEN [then |-> "return", lookup |-> TRUE, res |-> Ok(r.header)]
        ELSE IF slotNumber > r.header.slotNumber
        THEN [then |-> "return", lookup |-> TRUE,
              res |-> [Ok(r.header) EXCEPT !.isMissed = TRUE]]
        ELSE [then |-> "recurse", lookup |-> TRUE, res |-> r]

\* mutant: the missed branch answers with the next block, not the previous
checkSlotIsMissedOnceNextBlock(slotNumber, someNextBlock, v) ==
    IF slotNumber > someNextBlock.slotNumber
    THEN [then |-> "throw", lookup |-> FALSE, res |-> Err(0)]
    ELSE IF slotNumber = someNextBlock.slotNumber
    THEN [then |-> "return", lookup |-> FALSE, res |-> Ok(someNextBlock)]
    ELSE
        LET r == getBeaconBlockHeaderIn(v, someNextBlock.parentRoot) IN
        IF r.kind = "err" THEN [then |-> "throw", lookup |-> TRUE, res |-> r]
        ELSE IF slotNumber = r.header.slotNumber
        THEN [then |-> "return", lookup |-> TRUE, res |-> Ok(r.header)]
        ELSE IF slotNumber > r.header.slotNumber
        THEN [then |-> "return", lookup |-> TRUE,
              res |-> [Ok(someNextBlock) EXCEPT !.isMissed = TRUE]]
        ELSE [then |-> "recurse", lookup |-> TRUE, res |-> r]

\* one invocation of checkSlotIsMissed: whether it looked a header up, and
\* whether it threw, returned, or called itself with the header it got
checkSlotIsMissedOnce(slotNumber, someNextBlock, v) ==
    IF slotNumber > someNextBlock.slotNumber
    THEN [then |-> "throw", lookup |-> FALSE, res |-> Err(0)]
    ELSE IF slotNumber = someNextBlock.slotNumber
    THEN [then |-> "return", lookup |-> FALSE, res |-> Ok(someNextBlock)]
    ELSE
        LET r == getBeaconBlockHeaderIn(v, someNextBlock.parentRoot) IN
        IF r.kind = "err" THEN [then |-> "throw", lookup |-> TRUE, res |-> r]
        ELSE IF slotNumber = r.header.slotNumber
        THEN [then |-> "return", lookup |-> TRUE, res |-> Ok(r.header)]
        ELSE IF slotNumber > r.header.slotNumber
        THEN [then |-> "return", lookup |-> TRUE,
              res |-> [Ok(r.header) EXCEPT !.isMissed = TRUE]]
        ELSE [then |-> "recurse", lookup |-> TRUE, res |-> r]

\* the lookups of a walk are counted up to one past the default depth of the
\* slot probes; a walk that goes on stays in the same state from there
WalkCountCap == defaultMaxDeep + 1

\* a caller invokes checkSlotIsMissed(slotNumber, someNextBlock)
CallCheckSlotIsMissed ==
    /\ walk.pc = "idle"
    /\ \E slotNumber \in 0..MaxViewSlot, someNextBlock \in NextHeaders :
        walk' = [IdleWalk EXCEPT !.pc = "running", !.slotNumber = slotNumber,
                                 !.first = someNextBlock,
                                 !.someNextBlock = someNextBlock,
                                 !.path = <<someNextBlock>>]
    /\ UNCHANGED <<call, view, probe, req, dutyReq>>
    /\ UNCHANGED <<chainVars, loopVars, attVars, alertVars, summaryVars, registryVars>>

\* the body of checkSlotIsMissed runs once
CheckSlotIsMissedStep ==
    /\ walk.pc = "running"
    /\ LET o == checkSlotIsMissedOnce(walk.slotNumber, walk.someNextBlock, view)
           counted == walk.lookups < WalkCountCap
           lookups == IF o.lookup /\ counted THEN walk.lookups + 1 ELSE walk.lookups
           path == IF o.lookup /\ counted /\ o.res.kind = "ok"
                   THEN Append(walk.path, o.res.header) ELSE walk.path
       IN  walk' = IF o.then = "recurse"
                   THEN [walk EXCEPT !.someNextBlock = o.res.header,
                                     !.lookups = lookups, !.path = path]
                   ELSE [walk EXCEPT !.pc = "done", !.res = o.res,
                                     !.lookups = lookups, !.path = path]
    /\ UNCHANGED <<call, view, probe, req, dutyReq>>
    /\ UNCHANGED <<chainVars, loopVars, attVars, alertVars, summaryVars, registryVars>>

\* the caller has consumed the outcome
WalkReturn ==
    /\ walk.pc = "done"
    /\ walk' = IdleWalk
    /\ UNCHANGED <<call, view, probe, req, dutyReq>>
    /\ UNCHANGED <<chainVars, loopVars, attVars, alertVars, summaryVars, registryVars>>

InitWalk ==
    /\ InitChain
    /\ call = NoCall
    /\ IdleLoop
    /\ IdleAtt
    /\ IdleAlert
    /\ IdleSummary /\ IdleRegistry
    /\ view \in Views
    /\ walk = IdleWalk
    /\ probe = IdleProbe
    /\ req = IdleReq
    /\ dutyReq = IdleDuty

NextWalk == CallCheckSlotIsMissed \/ CheckSlotIsMissedStep \/ WalkReturn

SpecWalk == InitWalk /\ [][NextWalk]_vars

------------------------------------------------------------------------------
(* getNextNotMissedBlockHeader and getPreviousNotMissedBlockHeader,        *)
(* invocation by invocation, against a finalized chain.                    *)

\* largest maxDeep a caller passes
MaxDeepArg == 2

\* an API that answers every slot lookup, or fails one with a non-404 error
SlotFaultChoices == {{}} \cup {{SlotId(s)} : s \in 0..(MaxSlot + 1)}

\* one invocation of getNextNotMissedBlockHeader: the header request, then
\* return, throw, or the call of itself for slot + 1 with maxDeep - 1
getNextNotMissedBlockHeaderOnce(slot, maxDeep, faults) ==
    LET r == getBeaconBlockHeader(SlotId(slot), faults) IN
    IF r.kind = "ok" THEN [then |-> "return", res |-> r]
    ELSE IF r.code # 404 THEN [then |-> "throw", res |-> r]
    ELSE IF maxDeep < 1 THEN [then |-> "throw", res |-> r]
    ELSE [then |-> "recurse", res |-> r]

\* one invocation of getPreviousNotMissedBlockHeader (it calls itself for
\* slot - 1)
getPreviousNotMissedBlockHeaderOnce(slot, maxDeep, faults) ==
    LET r == getBeaconBlockHeader(SlotId(slot), faults) IN
    IF r.kind = "ok" THEN [then |-> "return", res |-> r]
    ELSE IF r.code # 404 THEN [then |-> "throw", res |-> r]
    ELSE IF maxDeep < 1 THEN [then |-> "throw", res |-> r]
    ELSE [then |-> "recurse", res |-> r]

\* a caller invokes one of the two searches
CallNotMissedBlockHeader ==
    /\ probe.pc = "idle"
    /\ \E op \in {"next", "previous"}, slot \in 0..(MaxSlot + 1),
          maxDeep \in 0..MaxDeepArg, faults \in SlotFaultChoices :
        probe' = [IdleProbe EXCEPT !.pc = "running", !.op = op, !.slot = slot,
                                  !.maxDeep = maxDeep, !.faults = faults]
    /\ UNCHANGED <<call, view, walk, req, dutyReq>>
    /\ UNCHANGED <<chainVars, loopVars, attVars, alertVars, summaryVars, registryVars>>

\* the slot and the maxDeep of the invocation that runs after the probes made
ProbeSlot ==
    IF probe.op = "next" THEN probe.slot + Len(probe.probed)
    ELSE probe.slot - Len(probe.probed)

ProbeMaxDeep == probe.maxDeep - Len(probe.probed)

\* the body of the search runs once
NotMissedBlockHeaderStep ==
    /\ probe.pc = "running"
    /\ LET o == IF probe.op = "next"
                THEN getNextNotMissedBlockHeaderOnce(ProbeSlot, ProbeMaxDeep, probe.faults)
                ELSE getPreviousNotMissedBlockHeaderOnce(ProbeSlot, ProbeMaxDeep, probe.faults)
           probed == Append(probe.probed, ProbeSlot)
           answers == Append(probe.answers, o.res)
       IN  probe' = IF o.then = "recurse"
                    THEN [probe EXCEPT !.probed = probed, !.answers = answers]
                    ELSE [probe EXCEPT !.pc = "done", !.probed = probed,
                                       !.answers = answers, !.res = o.res]
    /\ UNCHANGED <<call, view, walk, req, dutyReq>>
    /\ UNCHANGED <<chainVars, loopVars, attVars, alertVars, summaryVars, registryVars>>

\* the caller has consumed the outcome
ProbeReturn ==
    /\ probe.pc = "done"
    /\ probe' = IdleProbe
    /\ UNCHANGED <<call, view, walk, req, dutyReq>>
    /\ UNCHANGED <<chainVars, loopVars, attVars, alertVars, summaryVars, registryVars>>

InitProbe ==
    /\ \E held \in SUBSET (1..MaxSlot) : blocks = {0} \cup held
    /\ chainLen = MaxSlot + 1
    /\ IdleClient
    /\ IdleLoop
    /\ IdleAtt
    /\ IdleAlert
    /\ IdleSummary /\ IdleRegistry

NextProbe == CallNotMissedBlockHeader \/ NotMissedBlockHeaderStep \/ ProbeReturn

SpecProbe == InitProbe /\ [][NextProbe]_vars

------------------------------------------------------------------------------
(* The try block of getBeaconBlockHeaderOrPreviousIfMissed.                *)

\* mutant: the catch block searches after any failure of the lookup
getBeaconBlockHeaderOrPreviousIfMissedTryAnyError(slot, faults) ==
    LET r == getBeaconBlockHeader(SlotId(slot), faults) IN
    IF r.kind = "ok" THEN [then |-> "return", res |-> [r EXCEPT !.isMissed = FALSE]]
    ELSE [then |-> "search", res |-> r]

\* the try block of getBeaconBlockHeaderOrPreviousIfMissed and the test of
\* its catch block
getBeaconBlockHeaderOrPreviousIfMissedTry(slot, faults) ==
    LET r == getBeaconBlockHeader(SlotId(slot), faults) IN
    IF r.kind = "ok" THEN [then |-> "return", res |-> [r EXCEPT !.isMissed = FALSE]]
    ELSE IF r.code # 404 THEN [then |-> "throw", res |-> r]
    ELSE [then |-> "search", res |-> r]

------------------------------------------------------------------------------
(* getBeaconBlockHeaderOrPreviousIfMissed, header lookup by header lookup, *)
(* against a chain that finalizes further slots while the call runs.  Each *)
(* lookup is served from the chain as it is then, or fails with a non-404  *)
(* error.                                                                  *)

\* the API as one lookup sees it: it fails the lookup, or serves the chain
FaultsOf(fails, id) == IF fails THEN {id} ELSE {}

ViewOf(fails, root) ==
    IF fails THEN [r \in {root} |-> Err(500)] ELSE [r \in blocks |-> Ok(Header(r))]

\* the call is made; atCall records what the chain held then, lookups
\* counts the header lookups answered so far and last is the answer of the
\* latest of them
HeaderOrPreviousCalled(slot) ==
    [op |-> "getBeaconBlockHeaderOrPreviousIfMissed", slot |-> slot, pc |-> "try",
     probeSlot |-> slot, maxDeep |-> defaultMaxDeep, someNextBlock |-> NoHeader,
     lookups |-> 0, last |-> Err(0), res |-> Err(0),
     atCall |-> [hasBlock |-> slot \in blocks,
                 hasNext |-> \E b \in blocks : b > slot /\ b <= slot + defaultMaxDeep]]

CallHeaderOrPrevious ==
    /\ call.op = "none"
    /\ \E slot \in 0..(MaxSlot + 1) : call' = HeaderOrPreviousCalled(slot)
    /\ UNCHANGED <<view, walk, probe, req, dutyReq>>
    /\ UNCHANGED <<chainVars, loopVars, attVars, alertVars, summaryVars, registryVars>>

\* line 263 and the test of the catch block
HeaderOrPreviousFirst ==
    /\ call.op = "getBeaconBlockHeaderOrPreviousIfMissed"
    /\ call.pc = "try"
    /\ \E fails \in BOOLEAN :
        LET o == getBeaconBlockHeaderOrPreviousIfMissedTry(
                     call.slot, FaultsOf(fails, SlotId(call.slot)))
            last == [o.res EXCEPT !.isMissed = FALSE]
        IN  call' = IF o.then = "search"
                    THEN [call EXCEPT !.pc = "next", !.lookups = @ + 1, !.last = last]
                    ELSE [call EXCEPT !.pc = "done", !.lookups = @ + 1, !.last = last,
                                      !.res = o.res]
    /\ UNCHANGED <<view, walk, probe, req, dutyReq>>
    /\ UNCHANGED <<chainVars, loopVars, attVars, alertVars, summaryVars, registryVars>>

\* line 269: one invocation of getNextNotMissedBlockHeader
HeaderOrPreviousNext ==
    /\ call.op = "getBeaconBlockHeaderOrPreviousIfMissed"
    /\ call.pc = "next"
    /\ \E fails \in BOOLEAN :
        LET o == getNextNotMissedBlockHeaderOnce(
                     call.probeSlot, call.maxDeep, FaultsOf(fails, SlotId(call.probeSlot)))
        IN  call' = IF o.then = "recurse"
                    THEN [call EXCEPT !.probeSlot = @ + 1, !.maxDeep = @ - 1,
                                      !.lookups = @ + 1, !.last = o.res]
                    ELSE IF o.then = "return"
                    THEN [call EXCEPT !.pc = "walk", !.someNextBlock = o.res.header,
                                      !.lookups = @ + 1, !.last = o.res]
                    ELSE [call EXCEPT !.pc = "done", !.lookups = @ + 1, !.last = o.res,
                                      !.res = o.res]
    /\ UNCHANGED <<view, walk, probe, req, dutyReq>>
    /\ UNCHANGED <<chainVars, loopVars, attVars, alertVars, summaryVars, registryVars>>

\* lines 274-280: one invocation of checkSlotIsMissed; what it returns is
\* what the call returns
HeaderOrPreviousWalk ==
    /\ call.op = "getBeaconBlockHeaderOrPreviousIfMissed"
    /\ call.pc = "walk"
    /\ \E fails \in BOOLEAN :
        LET o == checkSlotIsMissedOnce(call.slot, call.someNextBlock,
                                       ViewOf(fails, call.someNextBlock.parentRoot))
            lookups == IF o.lookup THEN call.lookups + 1 ELSE call.lookups
            last == IF ~o.lookup THEN call.last
                    ELSE IF o.res.kind = "err" THEN o.res ELSE Ok(o.res.header)
        IN  \* an invocation that asks nothing cannot be failed
            /\ fails => o.lookup
            /\ call' = IF o.then = "recurse"
                       THEN [call EXCEPT !.someNextBlock = o.res.header,
                                         !.lookups = lookups, !.last = last]
                       ELSE [call EXCEPT !.pc = "done", !.lookups = lookups,
                                         !.last = last, !.res = o.res]
    /\ UNCHANGED <<view, walk, probe, req, dutyReq>>
    /\ UNCHANGED <<chainVars, loopVars, attVars, alertVars, summaryVars, registryVars>>

InitClient == InitChain /\ IdleClient /\ IdleLoop /\ IdleAtt /\ IdleAlert /\ IdleSummary /\ IdleRegistry

NextClient ==
    \/ ChainAdvance
    \/ CallHeaderOrPrevious
    \/ HeaderOrPreviousFirst
    \/ HeaderOrPreviousNext
    \/ HeaderOrPreviousWalk
    \/ Return

SpecClient == InitClient /\ [][NextClient]_vars

------------------------------------------------------------------------------
(* The three header lookups with missed-slot probing, side by side, one    *)
(* call at a time, against chains of any length that finalize further      *)
(* slots while a call runs: getNextNotMissedBlockHeader and                 *)
(* getPreviousNotMissedBlockHeader invocation by invocation, and            *)
(* getBeaconBlockHeaderOrPreviousIfMissed lookup by lookup.                 *)

LookupNotMissedBlockHeader == call = NoCall /\ CallNotMissedBlockHeader

LookupHeaderOrPrevious == probe = IdleProbe /\ CallHeaderOrPrevious

InitLookup ==
    /\ \E len \in 1..(MaxSlot + 1) : \E held \in SUBSET (1..(len - 1)) :
          blocks = {0} \cup held /\ chainLen = len
    /\ IdleClient
    /\ IdleLoop
    /\ IdleAtt
    /\ IdleAlert
    /\ IdleSummary /\ IdleRegistry

NextLookup ==
    \/ ChainAdvance
    \/ LookupNotMissedBlockHeader
    \/ NotMissedBlockHeaderStep
    \/ ProbeReturn
    \/ LookupHeaderOrPrevious
    \/ HeaderOrPreviousFirst
    \/ HeaderOrPreviousNext
    \/ HeaderOrPreviousWalk
    \/ Return

SpecLookup == InitLookup /\ [][NextLookup]_vars

------------------------------------------------------------------------------
(* retryRequest, request by request.  Every request is answered by the     *)
(* endpoint with 200, with 404, or with another failure.                   *)

\* largest maxRetries option of a call
MaxRetries == 2

AnswerCodes == {200, 404, 500}

\* the fallbackConditionCallback of a call: the default () => true, or the
\* (e) => 404 != e.$httpCode of the header and block lookups
FallbackConditions == {"always", "not404"}

fallbackConditionCallback(condition, e) ==
    IF condition = "not404" THEN 404 # e.code ELSE TRUE

\* retrier(logger, maxRetries, 100, 10000, true): the number of times the
\* function it returns calls its callback when every call fails
retrier(maxRetries) == IF maxRetries < 1 THEN 1 ELSE maxRetries

\* mutant: the last catch of retryRequest switches to the backup whatever
\* the error is
afterMainRetriesAnyError(condition, backup, e) ==
    IF backup = "" THEN "throw" ELSE "backup"

\* the last catch of retryRequest, entered with the error e of the last
\* retry of the main endpoint
afterMainRetries(condition, backup, e) ==
    IF fallbackConditionCallback(condition, e)
    THEN IF backup = "" THEN "throw" ELSE "backup"
    ELSE "throw"

\* retryRequest(callback, options) is called
CallRetryRequest ==
    /\ req.pc = "idle"
    /\ \E maxRetries \in 1..MaxRetries, condition \in FallbackConditions,
          backup \in {"", "http://backup"} :
        req' = [IdleReq EXCEPT !.pc = "first", !.maxRetries = maxRetries,
                               !.fallbackCondition = condition, !.backup = backup]
    /\ UNCHANGED <<call, view, walk, probe, dutyReq>>
    /\ UNCHANGED <<chainVars, loopVars, attVars, alertVars, summaryVars, registryVars>>

\* callback(this.rpcUrls.main); a failure is delayed and leads to retry(...)
FirstRequest ==
    /\ req.pc = "first"
    /\ \E c \in AnswerCodes :
        LET log == Append(req.log, [url |-> "main", code |-> c]) IN
        req' = IF c = 200
               THEN [req EXCEPT !.pc = "done", !.log = log, !.res = Answer(c)]
               ELSE [req EXCEPT !.pc = "retryMain", !.log = log,
                                !.left = retrier(req.maxRetries)]
    /\ UNCHANGED <<call, view, walk, probe, dutyReq>>
    /\ UNCHANGED <<chainVars, loopVars, attVars, alertVars, summaryVars, registryVars>>

\* retry(() => callback(this.rpcUrls.main)) calls the callback once more;
\* its last failure enters the last catch
RetryMainRequest ==
    /\ req.pc = "retryMain"
    /\ \E c \in AnswerCodes :
        LET log == Append(req.log, [url |-> "main", code |-> c]) IN
        req' = IF c = 200
               THEN [req EXCEPT !.pc = "done", !.log = log, !.res = Answer(c)]
               ELSE IF req.left > 1
               THEN [req EXCEPT !.log = log, !.left = req.left - 1]
               ELSE IF afterMainRetries(req.fallbackCondition, req.backup, Answer(c)) = "backup"
               THEN [req EXCEPT !.pc = "retryBackup", !.log = log,
                                !.left = retrier(req.maxRetries)]
               ELSE [req EXCEPT !.pc = "done", !.log = log, !.left = 0,
                                !.res = Answer(c)]
    /\ UNCHANGED <<call, view, walk, probe, dutyReq>>
    /\ UNCHANGED <<chainVars, loopVars, attVars, alertVars, summaryVars, registryVars>>

\* retry(() => callback(this.rpcUrls.backup)) calls the callback once more
RetryBackupRequest ==
    /\ req.pc = "retryBackup"
    /\ \E c \in AnswerCodes :
        LET log == Append(req.log, [url |-> "backup", code |-> c]) IN
        req' = IF c = 200
               THEN [req EXCEPT !.pc = "done", !.log = log, !.res = Answer(c)]
               ELSE IF req.left > 1
               THEN [req EXCEPT !.log = log, !.left = req.left - 1]
               ELSE [req EXCEPT !.pc = "done", !.log = log, !.left = 0,
                                !.res = Answer(c)]
    /\ UNCHANGED <<call, view, walk, probe, dutyReq>>
    /\ UNCHANGED <<chainVars, loopVars, attVars, alertVars, summaryVars, registryVars>>

\* the caller has consumed the outcome
RetryRequestReturn ==
    /\ req.pc = "done"
    /\ req' = IdleReq
    /\ UNCHANGED <<call, view, walk, probe, dutyReq>>
    /\ UNCHANGED <<chainVars, loopVars, attVars, alertVars, summaryVars, registryVars>>

InitRetry == InitChain /\ IdleClient /\ IdleLoop /\ IdleAtt /\ IdleAlert /\ IdleSummary /\ IdleRegistry

NextRetry ==
    \/ CallRetryRequest
    \/ FirstRequest
    \/ RetryMainRequest
    \/ RetryBackupRequest
    \/ RetryRequestReturn

SpecRetry == InitRetry /\ [][NextRetry]_vars

------------------------------------------------------------------------------
(* getCanonicalAttesterDuties and getCanonicalProposerDuties, request by   *)
(* request.  A duty request ends, after the retry policy of retryRequest,  *)
(* with a failure or with a response that carries the dependent root the   *)
(* node computed the duties for.                                           *)

\* highest block root token a duty response may carry
MaxDutyRoot == 2

DutyRoots == 0..MaxDutyRoot

\* the duties computed for dependent root r
DutyData(r) == <<"duties", r>>

\* outcomes of retryRequest(..., {dataOnly: false})
DutyResponses ==
    {[kind |-> "err", dependent_root |-> NoRoot, data |-> <<>>]} \cup
    {[kind |-> "ok", dependent_root |-> r, data |-> DutyData(r)] : r \in DutyRoots}

\* mutant: the dependent root of the response is not compared
requestUnchecked(dependentRoot, response) ==
    IF response.kind = "err" THEN [kind |-> "err", error |-> "request"]
    ELSE [kind |-> "ok", data |-> response.data]

\* the closure `request`: the duty request and the dependent root check
request(dependentRoot, response) ==
    IF response.kind = "err" THEN [kind |-> "err", error |-> "request"]
    ELSE IF response.dependent_root # dependentRoot
    THEN [kind |-> "err", error |-> "dependent root is not as expected"]
    ELSE [kind |-> "ok", data |-> response.data]

\* the Error of the last catch
FailedAfterRetries == [kind |-> "err", error |-> "Failed to get canonical duty info"]

\* getCanonicalAttesterDuties / getCanonicalProposerDuties is called
CallCanonicalDuties ==
    /\ dutyReq.pc = "idle"
    /\ \E op \in {"getCanonicalAttesterDuties", "getCanonicalProposerDuties"},
          dependentRoot \in DutyRoots, maxRetries \in 1..MaxRetries :
        dutyReq' = [IdleDuty EXCEPT !.pc = "first", !.op = op,
                                    !.dependentRoot = dependentRoot,
                                    !.maxRetries = maxRetries]
    /\ UNCHANGED <<call, view, walk, probe, req>>
    /\ UNCHANGED <<chainVars, loopVars, attVars, alertVars, summaryVars, registryVars>>

\* request(); a rejection leads to retry(() => request())
DutyFirstRequest ==
    /\ dutyReq.pc = "first"
    /\ \E response \in DutyResponses :
        LET o == request(dutyReq.dependentRoot, response)
            responses == Append(dutyReq.responses, response)
        IN  dutyReq' = IF o.kind = "ok"
                       THEN [dutyReq EXCEPT !.pc = "done", !.responses = responses,
                                            !.res = o]
                       ELSE [dutyReq EXCEPT !.pc = "retry", !.responses = responses,
                                            !.left = retrier(dutyReq.maxRetries)]
    /\ UNCHANGED <<call, view, walk, probe, req>>
    /\ UNCHANGED <<chainVars, loopVars, attVars, alertVars, summaryVars, registryVars>>

\* retry(() => request()) calls request once more; its last rejection enters
\* the last catch
DutyRetryRequest ==
    /\ dutyReq.pc = "retry"
    /\ \E response \in DutyResponses :
        LET o == request(dutyReq.dependentRoot, response)
            responses == Append(dutyReq.responses, response)
        IN  dutyReq' = IF o.kind = "ok"
                       THEN [dutyReq EXCEPT !.pc = "done", !.responses = responses,
                                            !.res = o]
                       ELSE IF dutyReq.left > 1
                       THEN [dutyReq EXCEPT !.responses = responses,
                                            !.left = dutyReq.left - 1]
                       ELSE [dutyReq EXCEPT !.pc = "done", !.responses = responses,
                                            !.left = 0, !.res = FailedAfterRetries]
    /\ UNCHANGED <<call, view, walk, probe, req>>
    /\ UNCHANGED <<chainVars, loopVars, attVars, alertVars, summaryVars, registryVars>>

\* the caller has consumed the outcome
DutyReturn ==
    /\ dutyReq.pc = "done"
    /\ dutyReq' = IdleDuty
    /\ UNCHANGED <<call, view, walk, probe, req>>
    /\ UNCHANGED <<chainVars, loopVars, attVars, alertVars, summaryVars, registryVars>>

InitDuties == InitChain /\ IdleClient /\ IdleLoop /\ IdleAtt /\ IdleAlert /\ IdleSummary /\ IdleRegistry

NextDuties == CallCanonicalDuties \/ DutyFirstRequest \/ DutyRetryRequest \/ DutyReturn

SpecDuties == InitDuties /\ [][NextDuties]_vars

------------------------------------------------------------------------------
(* getBlockInfoWithSlotAttestations and getNextNotMissedBlockInfo,         *)
(* invocation by invocation, against a finalized chain.                    *)

\* const maxDeep = 8 of getBlockInfoWithSlotAttestations
blockInfoMaxDeep == 8

\* ShortBeaconBlockInfo of the block at slot s
BlockInfo(s) == [kind |-> "blockInfo", slot |-> s]

\* getBlockInfo(slot): the block, undefined after a 404, or the rethrown
\* error of another request failure
getBlockInfo(slot, faults) ==
    IF SlotId(slot) \in faults THEN [kind |-> "err", code |-> 500]
    ELSE IF slot \in blocks THEN [kind |-> "ok", blockInfo |-> BlockInfo(slot)]
    ELSE [kind |-> "ok", blockInfo |-> Undefined]

\* bigintRange(start, end): start, start + 1, ..., end - 1
bigintRange(start, end) ==
    IF end > start THEN [i \in 1..(end - start) |-> start + (i - 1)] ELSE <<>>

\* one invocation of getNextNotMissedBlockInfo: the block request, then
\* return, throw, or the call of itself for slot + 1 with maxDeep - 1
getNextNotMissedBlockInfoOnce(slot, maxDeep, faults) ==
    LET r == getBlockInfo(slot, faults) IN
    IF r.kind = "err" THEN [then |-> "throw", res |-> r]
    ELSE IF r.blockInfo = Undefined
    THEN IF maxDeep < 1 THEN [then |-> "return", res |-> r]
         ELSE [then |-> "recurse", res |-> r]
    ELSE [then |-> "return", res |-> r]

\* mutant: when no block was found the missed slots are the maxDeep slots
\* after the slot
missedSlotsOfSearchShort(nearestBlockIncludedAttestations, blockInfo, maxDeep) ==
    IF blockInfo = Undefined
    THEN bigintRange(nearestBlockIncludedAttestations,
                     nearestBlockIncludedAttestations + maxDeep)
    ELSE IF nearestBlockIncludedAttestations # blockInfo.slot
    THEN bigintRange(nearestBlockIncludedAttestations, blockInfo.slot)
    ELSE <<>>

\* the missedSlots getBlockInfoWithSlotAttestations derives from the block
\* its search returned
missedSlotsOfSearch(nearestBlockIncludedAttestations, blockInfo, maxDeep) ==
    IF blockInfo = Undefined
    THEN bigintRange(nearestBlockIncludedAttestations,
                     nearestBlockIncludedAttestations + (maxDeep + 1))
    ELSE IF nearestBlockIncludedAttestations # blockInfo.slot
    THEN bigintRange(nearestBlockIncludedAttestations, blockInfo.slot)
    ELSE <<>>

\* getBlockInfoWithSlotAttestations(slot) is called
CallBlockInfoWithSlotAttestations ==
    /\ probe.pc = "idle"
    /\ \E slot \in 0..MaxSlot, faults \in SlotFaultChoices :
        probe' = [IdleProbe EXCEPT !.pc = "running",
                                  !.op = "getBlockInfoWithSlotAttestations",
                                  !.slot = slot, !.maxDeep = blockInfoMaxDeep,
                                  !.faults = faults]
    /\ UNCHANGED <<call, view, walk, req, dutyReq>>
    /\ UNCHANGED <<chainVars, loopVars, attVars, alertVars, summaryVars, registryVars>>

\* the body of getNextNotMissedBlockInfo runs once; when it returns,
\* getBlockInfoWithSlotAttestations derives the missed slots and returns
NextNotMissedBlockInfoStep ==
    /\ probe.pc = "running"
    /\ probe.op = "getBlockInfoWithSlotAttestations"
    /\ LET nearestBlockIncludedAttestations == probe.slot + 1
           slot == nearestBlockIncludedAttestations + Len(probe.probed)
           o == getNextNotMissedBlockInfoOnce(slot, probe.maxDeep - Len(probe.probed),
                                              probe.faults)
           probed == Append(probe.probed, slot)
       IN  probe' =
             IF o.then = "recurse" THEN [probe EXCEPT !.probed = probed]
             ELSE IF o.then = "throw"
             THEN [probe EXCEPT !.pc = "done", !.probed = probed, !.res = o.res]
             ELSE [probe EXCEPT !.pc = "done", !.probed = probed,
                     !.res = [kind |-> "ok", blockInfo |-> o.res.blockInfo,
                              missedSlots |->
                                  missedSlotsOfSearch(nearestBlockIncludedAttestations,
                                                      o.res.blockInfo, probe.maxDeep)]]
    /\ UNCHANGED <<call, view, walk, req, dutyReq>>
    /\ UNCHANGED <<chainVars, loopVars, attVars, alertVars, summaryVars, registryVars>>

NextBlockInfo == CallBlockInfoWithSlotAttestations \/ NextNotMissedBlockInfoStep \/ ProbeReturn

SpecBlockInfo == InitProbe /\ [][NextBlockInfo]_vars

------------------------------------------------------------------------------
(* getChunkedAttesterDuties, request by request: the index list is cut     *)
(* into chunks, each asked for with getCanonicalAttesterDuties.            *)

\* longest list of validator indexes a caller passes
MaxIndexes == 3

\* largest ETH2_POST_REQUEST_CHUNK_SIZE
MaxChunkSize == 2

\* maxRetries = 3 of getCanonicalAttesterDuties
dutyMaxRetries == 3

\* the lists of validator indexes of length n
IndexLists(n) == [1..n -> 1..MaxIndexes]

\* AttesterDutyInfo of one validator
DutyOf(index) == <<"duty", index>>

\* res.data for a chunk of indexes
DutiesOf(chunk) == [i \in 1..Len(chunk) |-> DutyOf(chunk[i])]

\* array.splice(0, n): the elements removed and the elements left
splice(array, n) ==
    LET k == IF n < Len(array) THEN n ELSE Len(array) IN
    [removed |-> SubSeq(array, 1, k), left |-> SubSeq(array, k + 1, Len(array))]

\* mutant: the chunks are cut from the caller's list itself
takeChunkInPlace(indexes, chunked, size) ==
    [chunk |-> splice(chunked, size).removed,
     chunked |-> splice(chunked, size).left,
     indexes |-> splice(chunked, size).left]

\* const chunk = chunked.splice(0, CHUNK_SIZE), chunked being the copy
\* [...indexes] of the caller's list
takeChunk(indexes, chunked, size) ==
    [chunk |-> splice(chunked, size).removed,
     chunked |-> splice(chunked, size).left,
     indexes |-> indexes]

IdleChunked ==
    [pc |-> "idle", indexes |-> <<>>, passed |-> <<>>, size |-> 1, chunked |-> <<>>,
     chunk |-> <<>>, left |-> 0, result |-> <<>>, log |-> <<>>, res |-> [kind |-> "none"]]

\* getChunkedAttesterDuties(epoch, dependentRoot, indexes) is called: the
\* list is copied and the loop test is made
CallChunkedAttesterDuties ==
    /\ dutyReq = IdleDuty
    /\ \E n \in 0..MaxIndexes, size \in 1..MaxChunkSize :
       \E indexes \in IndexLists(n) :
           dutyReq' = [IdleChunked EXCEPT !.pc = "loop", !.indexes = indexes,
                                          !.passed = indexes, !.size = size,
                                          !.chunked = indexes]
    /\ UNCHANGED <<call, view, walk, probe, req>>
    /\ UNCHANGED <<chainVars, loopVars, attVars, alertVars, summaryVars, registryVars>>

\* the test of the while loop: the next chunk is cut off, or the result is
\* returned
NextChunk ==
    /\ dutyReq.pc = "loop"
    /\ IF Len(dutyReq.chunked) > 0
       THEN LET t == takeChunk(dutyReq.indexes, dutyReq.chunked, dutyReq.size) IN
            dutyReq' = [dutyReq EXCEPT !.pc = "request", !.chunk = t.chunk,
                                       !.chunked = t.chunked, !.indexes = t.indexes,
                                       !.left = 1 + retrier(dutyMaxRetries)]
       ELSE dutyReq' = [dutyReq EXCEPT !.pc = "done",
                                       !.res = [kind |-> "ok", data |-> dutyReq.result]]
    /\ UNCHANGED <<call, view, walk, probe, req>>
    /\ UNCHANGED <<chainVars, loopVars, attVars, alertVars, summaryVars, registryVars>>

\* getCanonicalAttesterDuties(epoch, dependentRoot, chunk) makes one more
\* request for the chunk: it answers the chunk's duties, or fails (request
\* failure or dependent root mismatch) and is repeated or gives up
ChunkRequest ==
    /\ dutyReq.pc = "request"
    /\ \E ok \in BOOLEAN :
        LET log == Append(dutyReq.log, [chunk |-> dutyReq.chunk, ok |-> ok,
                                        at |-> Len(dutyReq.passed) - Len(dutyReq.chunked)
                                                  - Len(dutyReq.chunk)])
        IN  dutyReq' =
              IF ok
              THEN [dutyReq EXCEPT !.pc = "loop", !.log = log, !.left = 0,
                                   !.result = dutyReq.result \o DutiesOf(dutyReq.chunk)]
              ELSE IF dutyReq.left > 1
              THEN [dutyReq EXCEPT !.log = log, !.left = dutyReq.left - 1]
              ELSE [dutyReq EXCEPT !.pc = "done", !.log = log, !.left = 0,
                                   !.res = FailedAfterRetries]
    /\ UNCHANGED <<call, view, walk, probe, req>>
    /\ UNCHANGED <<chainVars, loopVars, attVars, alertVars, summaryVars, registryVars>>

\* the caller has consumed the outcome
ChunkedReturn ==
    /\ dutyReq.pc = "done"
    /\ dutyReq # IdleDuty
    /\ dutyReq' = IdleDuty
    /\ UNCHANGED <<call, view, walk, probe, req>>
    /\ UNCHANGED <<chainVars, loopVars, attVars, alertVars, summaryVars, registryVars>>

NextChunked == CallChunkedAttesterDuties \/ NextChunk \/ ChunkRequest \/ ChunkedReturn

SpecChunked == InitDuties /\ [][NextChunked]_vars

------------------------------------------------------------------------------
(* getDutyDependentRoot against a chain of whole epochs of 32 slots, with  *)
(* missed slots around the epoch boundaries.                               *)

\* the 32n of dutyRootSlot = epoch * 32n - 1n
slotsPerDutyEpoch == 32

\* highest epoch whose dependent root is asked for
MaxEpoch == 2

\* longest run of slots around an epoch boundary that may be missed
MaxBack == 2

\* the slots that may be missed: the last ones of an epoch and the first
\* ones of the next
BoundarySlots ==
    {s \in 1..(slotsPerDutyEpoch * MaxEpoch - 1) :
        \E e \in 1..MaxEpoch :
            /\ s >= slotsPerDutyEpoch * e - 1 - MaxBack
            /\ s <= slotsPerDutyEpoch * e - 1 + MaxBack}

\* mutant: the search starts a whole epoch before the start of the epoch
dutyRootSlotEpochBack(epoch) == epoch * slotsPerDutyEpoch - slotsPerDutyEpoch

\* const dutyRootSlot = epoch * 32n - 1n
dutyRootSlot(epoch) == epoch * slotsPerDutyEpoch - 1

\* getDutyDependentRoot(epoch) is called: it calls
\* getPreviousNotMissedBlockHeader(dutyRootSlot), which requests the header
\* of the slot and awaits
CallDutyDependentRoot ==
    /\ call.op = "none"
    /\ \E epoch \in 1..MaxEpoch :
        call' = [op |-> "getDutyDependentRoot", pc |-> "previous", epoch |-> epoch,
                 probeSlot |-> dutyRootSlot(epoch), maxDeep |-> defaultMaxDeep,
                 lookups |-> 0, last |-> Err(0), res |-> Err(0)]
    /\ UNCHANGED <<view, walk, probe, req, dutyReq>>
    /\ UNCHANGED <<chainVars, loopVars, attVars, alertVars, summaryVars, registryVars>>

\* one invocation of getPreviousNotMissedBlockHeader: its lookup is
\* answered or fails; res holds the header whose blockRoot
\* getDutyDependentRoot returns, or the error it throws
DutyDependentRootPrevious ==
    /\ call.op = "getDutyDependentRoot"
    /\ call.pc = "previous"
    /\ \E fails \in BOOLEAN :
        LET o == getPreviousNotMissedBlockHeaderOnce(
                     call.probeSlot, call.maxDeep, FaultsOf(fails, SlotId(call.probeSlot)))
        IN  call' = IF o.then = "recurse"
                    THEN [call EXCEPT !.probeSlot = @ - 1, !.maxDeep = @ - 1,
                                      !.lookups = @ + 1, !.last = o.res]
                    ELSE [call EXCEPT !.pc = "done", !.lookups = @ + 1, !.last = o.res,
                                      !.res = o.res]
    /\ UNCHANGED <<view, walk, probe, req, dutyReq>>
    /\ UNCHANGED <<chainVars, loopVars, attVars, alertVars, summaryVars, registryVars>>

InitDutyRoot ==
    /\ \E missed \in SUBSET BoundarySlots :
          blocks = (0..(slotsPerDutyEpoch * MaxEpoch - 1)) \ missed
    /\ chainLen = slotsPerDutyEpoch * MaxEpoch
    /\ IdleClient
    /\ IdleLoop
    /\ IdleAtt
    /\ IdleAlert
    /\ IdleSummary /\ IdleRegistry

NextDutyRoot == CallDutyDependentRoot \/ DutyDependentRootPrevious \/ Return

SpecDutyRoot == InitDutyRoot /\ [][NextDutyRoot]_vars

------------------------------------------------------------------------------
(* InspectorService: the driver loop.                                      *)

\* mutant: the epoch's last slot is returned even when it is the starting slot
calculateNextFinalizedSlotNoAdvance ==
    LET step == config.FETCH_INTERVAL_SLOTS
        startingSlot == IF latestSlotInDb >= config.START_SLOT
                        THEN latestSlotInDb ELSE config.START_SLOT
        epoch == startingSlot \div step
    IN  epoch * step + (step - 1)

calculateNextFinalizedSlot ==
    LET step == config.FETCH_INTERVAL_SLOTS
        startingSlot == IF latestSlotInDb >= config.START_SLOT
                        THEN latestSlotInDb ELSE config.START_SLOT
        epoch == startingSlot \div step
        latestSlotInEpoch == epoch * step + (step - 1)
    IN  IF latestSlotInEpoch = startingSlot
        THEN latestSlotInEpoch + step ELSE latestSlotInEpoch

\* mutant: the target is looked up whether or not finality has reached it
newFinalizedSlotHappenedEager(latestFinalized, nextSlot) == TRUE

\* line 76: finality has reached the target, which the DB does not hold yet
newFinalizedSlotHappened(latestFinalized, nextSlot) ==
    latestFinalized.slotNumber >= nextSlot /\ nextSlot > latestSlotInDb

\* mutant: a missed target is reported under the earlier block's slot number
waitForNextFinalizedSlotPrevSlot(nextSlot, r) ==
    IF r.kind = "err" THEN [NoWait EXCEPT !.kind = "throw"]
    ELSE [kind |-> "ok", slotToWrite |-> r.header.slotNumber,
          stateRoot |-> r.header.stateRoot, slotNumber |-> r.header.slotNumber]

\* mutant: a missed target is reported with the state root of its own slot
waitForNextFinalizedSlotTargetRoot(nextSlot, r) ==
    IF r.kind = "err" THEN [NoWait EXCEPT !.kind = "throw"]
    ELSE [kind |-> "ok", slotToWrite |-> nextSlot,
          stateRoot |-> nextSlot, slotNumber |-> nextSlot]

\* mutant: the latest finalized header is returned in place of the target
waitForNextFinalizedSlotLatest(nextSlot, r) ==
    IF r.kind = "err" THEN [NoWait EXCEPT !.kind = "throw"]
    ELSE [kind |-> "ok", slotToWrite |-> latestFinalizedBeaconBlock.slotNumber,
          stateRoot |-> latestFinalizedBeaconBlock.stateRoot,
          slotNumber |-> latestFinalizedBeaconBlock.slotNumber]

\* lines 84-110: what waitForNextFinalizedSlot(nextSlot) does with the outcome
\* r of getBeaconBlockHeaderOrPreviousIfMissed(nextSlot): "throw", or the
\* triple it returns
waitForNextFinalizedSlot(nextSlot, r) ==
    IF r.kind = "err" THEN [NoWait EXCEPT !.kind = "throw"]
    ELSE IF ~r.isMissed
    THEN [kind |-> "ok", slotToWrite |-> r.header.slotNumber,
          stateRoot |-> r.header.stateRoot, slotNumber |-> r.header.slotNumber]
    ELSE [kind |-> "ok", slotToWrite |-> nextSlot,
          stateRoot |-> r.header.stateRoot, slotNumber |-> r.header.slotNumber]

\* lines 121-123: the promise the timer resolves
waitForNextFinalizedSlotTimer ==
    [kind |-> "ok", slotToWrite |-> 0, stateRoot |-> NoRoot, slotNumber |-> 0]

------------------------------------------------------------------------------
(* ClickhouseService.writeAttestations                                     *)

ATTESTATION_MAX_INCLUSION_IN_BLOCK_DELAY == 1

NULL == -1

\* committee indexes, and positions inside a committee
Committees == {0, 1}

Positions == {0, 1}

\* the duties of the epoch under processing (AttesterDutyInfo)
Duties ==
    [slot : 0..(MaxAttSlot - 1), committee_index : Committees,
     validator_committee_index : Positions]

\* aggregation bitfields: each marks one position of the committee
BitFields == {[i \in Positions |-> i = p] : p \in Positions}

\* an attestation carried by a block
Attestations == [slot : 0..(MaxAttSlot - 1), committee_index : Committees, bits : BitFields]

\* a set of duties as a list, in a fixed order
RECURSIVE SetToSeq(_)
SetToSeq(S) ==
    IF S = {} THEN <<>>
    ELSE LET x == CHOOSE y \in S : TRUE IN <<x>> \o SetToSeq(S \ {x})

\* the keys of blocksAttestations in the order Object.entries yields them:
\* integer keys come in ascending numeric order
RECURSIVE ObjectKeys(_)
ObjectKeys(S) ==
    IF S = {} THEN <<>>
    ELSE LET x == SetMin(S) IN <<x>> \o ObjectKeys(S \ {x})

\* mutant: the attestation found counts for every position of the committee
RECURSIVE findAllBits(_, _, _)
findAllBits(atts, a, i) ==
    IF i > Len(atts) THEN [found |-> FALSE, bits |-> [p \in Positions |-> FALSE]]
    ELSE IF atts[i].slot = a.slot /\ atts[i].committee_index = a.committee_index
    THEN [found |-> TRUE, bits |-> [p \in Positions |-> TRUE]]
    ELSE findAllBits(atts, a, i + 1)

\* Array.prototype.find: the first element that satisfies the test, or none
RECURSIVE find(_, _, _)
find(atts, a, i) ==
    IF i > Len(atts) THEN [found |-> FALSE, bits |-> [p \in Positions |-> FALSE]]
    ELSE IF atts[i].slot = a.slot /\ atts[i].committee_index = a.committee_index
    THEN [found |-> TRUE, bits |-> atts[i].bits]
    ELSE find(atts, a, i + 1)

\* allMissedSlots.filter(missed > a.slot && missed < block).length
RECURSIVE missedSlotsOffset(_, _, _, _)
missedSlotsOffset(allMissedSlots, a, block, i) ==
    IF i > Len(allMissedSlots) THEN 0
    ELSE (IF allMissedSlots[i] > a.slot /\ allMissedSlots[i] < block THEN 1 ELSE 0)
         + missedSlotsOffset(allMissedSlots, a, block, i + 1)

\* the body of the loop over blocksAttestations for one duty `a`, from the
\* i-th key on; a carries attested and in_block
RECURSIVE searchBlocks(_, _, _, _)
searchBlocks(a, res, keys, i) ==
    IF i > Len(keys) THEN a
    ELSE
        LET block == keys[i]
            committeeAttestationInfo == find(res.blocksAttestations[block], a, 1)
            a1 == IF committeeAttestationInfo.found
                  THEN [a EXCEPT
                          !.attested = committeeAttestationInfo.bits[a.validator_committee_index],
                          !.in_block = block]
                  ELSE a
        IN  IF a.slot >= block THEN searchBlocks(a, res, keys, i + 1)
            ELSE IF a1.attested
            THEN IF block - a.slot
                      - missedSlotsOffset(res.allMissedSlots, a, block, 1)
                    > ATTESTATION_MAX_INCLUSION_IN_BLOCK_DELAY
                 THEN [a1 EXCEPT !.attested = FALSE]
                 ELSE a1
            ELSE searchBlocks(a1, res, keys, i + 1)

\* the row written for one duty
AttRow(duty, res) ==
    searchBlocks([slot |-> duty.slot, committee_index |-> duty.committee_index,
                  validator_committee_index |-> duty.validator_committee_index,
                  attested |-> FALSE, in_block |-> NULL],
                 res, ObjectKeys(DOMAIN res.blocksAttestations), 1)

\* ---- the input of writeAttestations, built slot by slot

Decided ==
    DOMAIN attDutyResult.blocksAttestations
        \cup {attDutyResult.allMissedSlots[i] : i \in 1..Len(attDutyResult.allMissedSlots)}

Undecided == {s \in 0..MaxAttSlot : \A d \in Decided : s > d}

RECURSIVE SumLen(_, _)
SumLen(f, S) ==
    IF S = {} THEN 0
    ELSE LET x == CHOOSE y \in S : TRUE IN Len(f[x]) + SumLen(f, S \ {x})

Unwritten == writer = IdleWriter /\ rows = <<>>

\* a fetched block joins the candidates, with no attestation yet
AddBlock ==
    /\ Unwritten
    /\ \E s \in Undecided :
        attDutyResult' = [attDutyResult EXCEPT
            !.blocksAttestations = [b \in DOMAIN @ \cup {s} |->
                                       IF b = s THEN <<>> ELSE @[b]]]
    /\ UNCHANGED <<rows, writer, chainVars, clientVars, loopVars, alertVars, summaryVars, registryVars>>

\* a slot is recorded as missed
AddMissed ==
    /\ Unwritten
    /\ \E s \in Undecided :
        attDutyResult' = [attDutyResult EXCEPT !.allMissedSlots = Append(@, s)]
    /\ UNCHANGED <<rows, writer, chainVars, clientVars, loopVars, alertVars, summaryVars, registryVars>>

\* the latest candidate block carries one more attestation
AddAttestation ==
    /\ Unwritten
    /\ DOMAIN attDutyResult.blocksAttestations # {}
    /\ SumLen(attDutyResult.blocksAttestations, DOMAIN attDutyResult.blocksAttestations)
         < MaxAtts
    /\ \E att \in Attestations :
        LET b == SetMax(DOMAIN attDutyResult.blocksAttestations) IN
        attDutyResult' = [attDutyResult EXCEPT
            !.blocksAttestations[b] = Append(@, att)]
    /\ UNCHANGED <<rows, writer, chainVars, clientVars, loopVars, alertVars, summaryVars, registryVars>>

\* DB_INSERT_CHUNK_SIZE of the smaller configuration; the other one holds
\* every duty in one chunk
MaxDbChunk == 3

DbChunkSizes == {MaxDbChunk, 100}

\* writeAttestations(attDutyResult, ...) is called
CallWriteAttestations ==
    /\ Unwritten
    /\ \E chunkSize \in DbChunkSizes :
        writer' = [IdleWriter EXCEPT !.pc = "while", !.chunkSize = chunkSize]
    /\ UNCHANGED <<attDutyResult, rows>>
    /\ UNCHANGED <<chainVars, clientVars, loopVars, alertVars, summaryVars, registryVars>>

\* the test of the while loop; then splice takes the chunk off the list and
\* a new insert stream is opened
NextDbChunk ==
    /\ writer.pc = "while"
    /\ IF attDutyResult.attestersDutyInfo = <<>>
       THEN /\ writer' = [writer EXCEPT !.pc = "done", !.outcome = "returned"]
            /\ UNCHANGED attDutyResult
       ELSE /\ writer' = [writer EXCEPT
                            !.pc = "rows",
                            !.chunk = splice(attDutyResult.attestersDutyInfo,
                                             writer.chunkSize).removed,
                            !.ws = <<>>]
            /\ attDutyResult' = [attDutyResult EXCEPT
                    !.attestersDutyInfo = splice(@, writer.chunkSize).left]
    /\ UNCHANGED rows
    /\ UNCHANGED <<chainVars, clientVars, loopVars, alertVars, summaryVars, registryVars>>

\* the body of `for (const a of chunk)`: the row of the duty is computed and
\* written to the stream; the awaited writeRow resolves or rejects
WriteRow ==
    /\ writer.pc = "rows"
    /\ writer.chunk # <<>>
    /\ \/ writer' = [writer EXCEPT
                        !.ws = Append(@, AttRow(Head(writer.chunk), attDutyResult)),
                        !.chunk = Tail(@)]
       \/ writer' = [writer EXCEPT !.pc = "done", !.outcome = "thrown"]
    /\ UNCHANGED <<attDutyResult, rows>>
    /\ UNCHANGED <<chainVars, clientVars, loopVars, alertVars, summaryVars, registryVars>>

\* await this.retry(async () => await ws.exec()): the rows of the stream are
\* committed, or the insert fails after the retries and the call throws
ExecDbChunk ==
    /\ writer.pc = "rows"
    /\ writer.chunk = <<>>
    /\ \/ /\ rows' = rows \o writer.ws
          /\ writer' = [writer EXCEPT !.pc = "while", !.ws = <<>>]
       \/ /\ writer' = [writer EXCEPT !.pc = "done", !.outcome = "thrown"]
          /\ UNCHANGED rows
    /\ UNCHANGED attDutyResult
    /\ UNCHANGED <<chainVars, clientVars, loopVars, alertVars, summaryVars, registryVars>>

InitAtt ==
    /\ InitChain
    /\ IdleClient
    /\ IdleLoop
    /\ IdleAlert
    /\ IdleSummary /\ IdleRegistry
    /\ attDutyResult = [attestersDutyInfo |-> SetToSeq(Duties),
                        blocksAttestations |-> <<>>, allMissedSlots |-> <<>>]
    /\ rows = <<>>
    /\ writer = IdleWriter

NextAtt ==
    \/ AddBlock
    \/ AddMissed
    \/ AddAttestation
    \/ CallWriteAttestations
    \/ NextDbChunk
    \/ WriteRow
    \/ ExecDbChunk

SpecAtt == InitAtt /\ [][NextAtt]_vars

------------------------------------------------------------------------------
(* Critical alerts: the alert rules (alertRule, sendRule, alertBody)       *)
(* A ruleResult is the list of its entries in insertion order, each with   *)
(* the operator's name and its payload. Times are whole hours.             *)

CRITICAL_ALERTS_MIN_VAL_COUNT == 1

Operators == {"A", "B"}

\* lists of at most one row per operator, in any order
RowLists(Rows) ==
    {<<>>} \cup {<<r>> : r \in Rows}
           \cup {pr \in Rows \X Rows : pr[1].nos_name # pr[2].nos_name}

\* storage.getLidoNodeOperatorsStats
OperatorsStats == RowLists([nos_name : Operators, active_ongoing : 1..MaxVal])

\* storage.getValidatorsCountWithNegativeDelta
NegativeCounts == RowLists([nos_name : Operators, neg_count : 0..MaxVal])

\* storage.getLidoNodeOperatorsProposesStats
ProposesStats ==
    RowLists({r \in [nos_name : Operators, all : 0..MaxVal, missed : 0..MaxVal] :
                 r.missed <= r.all})

\* Array.find by nos_name: the first matching row, or undefined
RECURSIVE findStats(_, _, _)
findStats(list, name, i) ==
    IF i > Len(list) THEN Undefined
    ELSE IF list[i].nos_name = name THEN list[i]
    ELSE findStats(list, name, i + 1)

\* mutant: operators at the floor are evaluated as well
RECURSIVE CriticalNegativeDelta_alertRuleAtFloor(_, _, _)
CriticalNegativeDelta_alertRuleAtFloor(operators, negativeValidatorsCount, i) ==
    IF i > Len(operators) THEN <<>>
    ELSE
        LET operator == operators[i]
            negDelta == findStats(negativeValidatorsCount, operator.nos_name, 1)
            rest == CriticalNegativeDelta_alertRuleAtFloor(operators, negativeValidatorsCount, i + 1)
        IN  IF /\ operator.active_ongoing >= CRITICAL_ALERTS_MIN_VAL_COUNT
               /\ negDelta # Undefined
               /\ 3 * negDelta.neg_count > operator.active_ongoing
            THEN <<[operator |-> operator.nos_name,
                    value |-> [ongoing |-> operator.active_ongoing,
                               negDelta |-> negDelta.neg_count]]>> \o rest
            ELSE rest

RECURSIVE CriticalNegativeDelta_alertRule(_, _, _)
CriticalNegativeDelta_alertRule(operators, negativeValidatorsCount, i) ==
    IF i > Len(operators) THEN <<>>
    ELSE
        LET operator == operators[i]
            negDelta == findStats(negativeValidatorsCount, operator.nos_name, 1)
            rest == CriticalNegativeDelta_alertRule(operators, negativeValidatorsCount, i + 1)
        IN  IF /\ operator.active_ongoing > CRITICAL_ALERTS_MIN_VAL_COUNT
               /\ negDelta # Undefined
               /\ 3 * negDelta.neg_count > operator.active_ongoing
            THEN <<[operator |-> operator.nos_name,
                    value |-> [ongoing |-> operator.active_ongoing,
                               negDelta |-> negDelta.neg_count]]>> \o rest
            ELSE rest

RECURSIVE CriticalMissedProposes_alertRule(_, _, _)
CriticalMissedProposes_alertRule(operators, proposes, i) ==
    IF i > Len(operators) THEN <<>>
    ELSE
        LET operator == operators[i]
            proposeStats == findStats(proposes, operator.nos_name, 1)
            rest == CriticalMissedProposes_alertRule(operators, proposes, i + 1)
        IN  IF /\ operator.active_ongoing > CRITICAL_ALERTS_MIN_VAL_COUNT
               /\ proposeStats # Undefined
               /\ 3 * proposeStats.missed > proposeStats.all
            THEN <<[operator |-> operator.nos_name,
                    value |-> [all |-> proposeStats.all,
                               missed |-> proposeStats.missed]]>> \o rest
            ELSE rest

\* every ruleResult alertRule can return from the storage contents above
NegativeDeltaResults ==
    {CriticalNegativeDelta_alertRule(o, n, 1) : o \in OperatorsStats, n \in NegativeCounts}

MissedProposesResults ==
    {CriticalMissedProposes_alertRule(o, q, 1) : o \in OperatorsStats, q \in ProposesStats}

RuleResults(alertname) ==
    IF alertname = "CriticalNegativeDelta" THEN NegativeDeltaResults
    ELSE MissedProposesResults

\* the storage contents met by the alert cycles: every operator runs either
\* the minimum or the largest number of validators, and had either none or
\* the largest number of proposals
CycleOperatorsStats ==
    {o \in OperatorsStats :
        \A i \in 1..Len(o) : o[i].active_ongoing \in {CRITICAL_ALERTS_MIN_VAL_COUNT, MaxVal}}

CycleProposesStats ==
    {q \in ProposesStats : \A i \in 1..Len(q) : q[i].all \in {0, MaxVal}}

CycleNegativeDeltaResults ==
    {CriticalNegativeDelta_alertRule(o, n, 1) : o \in CycleOperatorsStats, n \in NegativeCounts}

CycleMissedProposesResults ==
    {CriticalMissedProposes_alertRule(o, q, 1) : o \in CycleOperatorsStats, q \in CycleProposesStats}

\* the ruleResults of the alerts whose alertRule is not among the sources:
\* the storage met by the alert cycles holds no operator with a critical
\* count of missed attestations or of slashed validators
SeverityResults == {<<>>}

CycleRuleResults(alertname) ==
    IF alertname = "CriticalNegativeDelta" THEN CycleNegativeDeltaResults
    ELSE IF alertname = "CriticalMissedProposes" THEN CycleMissedProposesResults
    ELSE SeverityResults

\* the storage contents met by the cycles of the loop: at most the first
\* operator has a critical count of validators with negative delta
LoopRuleResults(alertname) ==
    IF alertname = "CriticalNegativeDelta"
    THEN {<<>>, <<[operator |-> "A", value |-> [ongoing |-> MaxVal, negDelta |-> MaxVal]]>>}
    ELSE {<<>>}

\* what alertRule may return in a cycle of send, and of sendCriticalAlerts
StoredRuleResults(service, alertname) ==
    IF service = "sendCriticalAlerts" THEN LoopRuleResults(alertname)
    ELSE CycleRuleResults(alertname)

\* sentAlerts[alertname]?.ruleResult[operator]: the payload, or undefined
RECURSIVE entryOf(_, _, _)
entryOf(ruleResult, operator, i) ==
    IF i > Len(ruleResult) THEN Undefined
    ELSE IF ruleResult[i].operator = operator THEN ruleResult[i].value
    ELSE entryOf(ruleResult, operator, i + 1)

\* sentAlerts[alertname]?.timestamp ?? 0
prevSendTimestamp(sent) == IF sent = Undefined THEN 0 ELSE sent.timestamp

\* sentAlerts[alertname]?.ruleResult[operator]
prevOperatorResult(sent, operator) ==
    IF sent = Undefined THEN Undefined ELSE entryOf(sent.ruleResult, operator, 1)

\* variant: an unchanged negDelta counts as increased
RECURSIVE CriticalNegativeDelta_increasedOrEqual(_, _, _, _)
CriticalNegativeDelta_increasedOrEqual(ruleResult, sent, sendTimestamp, i) ==
    IF i > Len(ruleResult) THEN FALSE
    ELSE
        LET prev == prevOperatorResult(sent, ruleResult[i].operator)
            prevNegDelta == IF prev = Undefined THEN 0 ELSE prev.negDelta
        IN  IF /\ ruleResult[i].value.negDelta >= prevNegDelta
               /\ sendTimestamp - prevSendTimestamp(sent) > ifIncreasedInterval
            THEN TRUE
            ELSE CriticalNegativeDelta_increasedOrEqual(ruleResult, sent, sendTimestamp, i + 1)

\* mutant: an increase is sent whatever the time since the last send
RECURSIVE CriticalNegativeDelta_increasedNoInterval(_, _, _, _)
CriticalNegativeDelta_increasedNoInterval(ruleResult, sent, sendTimestamp, i) ==
    IF i > Len(ruleResult) THEN FALSE
    ELSE
        LET prev == prevOperatorResult(sent, ruleResult[i].operator)
            prevNegDelta == IF prev = Undefined THEN 0 ELSE prev.negDelta
        IN  IF ruleResult[i].value.negDelta > prevNegDelta
            THEN TRUE
            ELSE CriticalNegativeDelta_increasedNoInterval(ruleResult, sent, sendTimestamp, i + 1)

\* mutant: only the first operator of the ruleResult is compared
CriticalNegativeDelta_increasedFirstOnly(ruleResult, sent, sendTimestamp, i) ==
    IF i > Len(ruleResult) THEN FALSE
    ELSE
        LET prev == prevOperatorResult(sent, ruleResult[i].operator)
            prevNegDelta == IF prev = Undefined THEN 0 ELSE prev.negDelta
        IN  /\ ruleResult[i].value.negDelta > prevNegDelta
            /\ sendTimestamp - prevSendTimestamp(sent) > ifIncreasedInterval

\* the loop of CriticalNegativeDelta.sendRule over Object.entries(ruleResult)
RECURSIVE CriticalNegativeDelta_increased(_, _, _, _)
CriticalNegativeDelta_increased(ruleResult, sent, sendTimestamp, i) ==
    IF i > Len(ruleResult) THEN FALSE
    ELSE
        LET prev == prevOperatorResult(sent, ruleResult[i].operator)
            prevNegDelta == IF prev = Undefined THEN 0 ELSE prev.negDelta
        IN  IF /\ ruleResult[i].value.negDelta > prevNegDelta
               /\ sendTimestamp - prevSendTimestamp(sent) > ifIncreasedInterval
            THEN TRUE
            ELSE CriticalNegativeDelta_increased(ruleResult, sent, sendTimestamp, i + 1)

\* variant: the ruleResult is not required to be non-empty
CriticalNegativeDelta_sendRuleAnyResult(ruleResult, sent, sendTimestamp) ==
    IF sendTimestamp - prevSendTimestamp(sent) > defaultInterval
    THEN TRUE
    ELSE CriticalNegativeDelta_increased(ruleResult, sent, sendTimestamp, 1)

CriticalNegativeDelta_sendRule(ruleResult, sent, sendTimestamp) ==
    IF Len(ruleResult) > 0
    THEN IF sendTimestamp - prevSendTimestamp(sent) > defaultInterval
         THEN TRUE
         ELSE CriticalNegativeDelta_increased(ruleResult, sent, sendTimestamp, 1)
    ELSE FALSE

\* a / b > c / d on JavaScript numbers, for counts a, b, c, d >= 0:
\* 0 / 0 is NaN and every comparison with NaN is false; x / 0 is Infinity
DivGreater(a, b, c, d) ==
    IF (a = 0 /\ b = 0) \/ (c = 0 /\ d = 0) THEN FALSE
    ELSE IF d = 0 THEN FALSE
    ELSE IF b = 0 THEN TRUE
    ELSE a * d > c * b

\* the loop of CriticalMissedProposes.sendRule over Object.entries(ruleResult)
RECURSIVE CriticalMissedProposes_increased(_, _, _, _)
CriticalMissedProposes_increased(ruleResult, sent, sendTimestamp, i) ==
    IF i > Len(ruleResult) THEN FALSE
    ELSE
        LET prev == prevOperatorResult(sent, ruleResult[i].operator)
            prevAll == IF prev = Undefined THEN 0 ELSE prev.all
            prevMissed == IF prev = Undefined THEN 0 ELSE prev.missed
            operatorResult == ruleResult[i].value
        IN  IF /\ DivGreater(operatorResult.missed, operatorResult.all, prevMissed, prevAll)
               /\ sendTimestamp - prevSendTimestamp(sent) > defaultInterval
            THEN TRUE
            ELSE CriticalMissedProposes_increased(ruleResult, sent, sendTimestamp, i + 1)

CriticalMissedProposes_sendRule(ruleResult, sent, sendTimestamp) ==
    IF Len(ruleResult) > 0
    THEN CriticalMissedProposes_increased(ruleResult, sent, sendTimestamp, 1)
    ELSE FALSE

\* the loop of the sendRule of an alert whose source is not at hand: some
\* operator's severity is strictly above its last sent value, an absent one
\* counting as 0, and the escalation interval has passed
RECURSIVE Alert_increased(_, _, _, _)
Alert_increased(ruleResult, sent, sendTimestamp, i) ==
    IF i > Len(ruleResult) THEN FALSE
    ELSE
        LET prev == prevOperatorResult(sent, ruleResult[i].operator)
            prevSeverity == IF prev = Undefined THEN 0 ELSE prev.severity
        IN  IF /\ ruleResult[i].value.severity > prevSeverity
               /\ sendTimestamp - prevSendTimestamp(sent) > ifIncreasedInterval
            THEN TRUE
            ELSE Alert_increased(ruleResult, sent, sendTimestamp, i + 1)

\* sendRule of CriticalMissedAttestations and CriticalSlashing, after the
\* protocol of the alert engine: an empty ruleResult is never sent, a
\* non-empty one after the default interval, or after the escalation
\* interval when some operator's severity worsened
Alert_sendRule(ruleResult, sent, sendTimestamp) ==
    IF Len(ruleResult) > 0
    THEN IF sendTimestamp - prevSendTimestamp(sent) > defaultInterval
         THEN TRUE
         ELSE Alert_increased(ruleResult, sent, sendTimestamp, 1)
    ELSE FALSE

\* alert.sendRule(ruleResult), with sent = sentAlerts[alert.alertname] and
\* sendTimestamp = Date.now()
sendRule(alertname, ruleResult, sent, sendTimestamp) ==
    IF alertname = "CriticalNegativeDelta"
    THEN CriticalNegativeDelta_sendRule(ruleResult, sent, sendTimestamp)
    ELSE IF alertname = "CriticalMissedProposes"
    THEN CriticalMissedProposes_sendRule(ruleResult, sent, sendTimestamp)
    ELSE Alert_sendRule(ruleResult, sent, sendTimestamp)

\* alertBody: validity window from sendTimestamp, labels, summary count
alertBody(alertname, ruleResult, sendTimestamp) ==
    [startsAt |-> sendTimestamp, alertname |-> alertname, summary |-> Len(ruleResult)]

------------------------------------------------------------------------------
(* Critical alerts: toSend, CriticalAlertsService.send and fire            *)

\* Alert.toSend: evaluate alertRule; when sendRule holds, the prepared alert
\* { timestamp, body, ruleResult }, otherwise undefined
toSend(alertname, ruleResult, sent, sendTimestamp) ==
    IF sendRule(alertname, ruleResult, sent, sendTimestamp)
    THEN [kind |-> "sent", timestamp |-> sendTimestamp,
          body |-> alertBody(alertname, ruleResult, sendTimestamp),
          ruleResult |-> ruleResult]
    ELSE Undefined

\* the record of one toSend call: what it was given and what it answered
Evaluation(alertname, ruleResult, sent, sendTimestamp) ==
    [kind |-> "evaluated", alertname |-> alertname, ruleResult |-> ruleResult,
     prev |-> sent, at |-> sendTimestamp,
     send |-> sendRule(alertname, ruleResult, sent, sendTimestamp),
     toSend |-> toSend(alertname, ruleResult, sent, sendTimestamp)]

\* fire: got.post is started and neither returned nor awaited, so fire's
\* promise is already resolved while the request is in flight; every call
\* starts a request of its own, whatever became of the earlier ones
fire(deliveries, alertname, alert) ==
    [deliveries EXCEPT ![alertname] = Append(@, [state |-> "pending", body |-> alert])]

\* fire(...).then(() => (sentAlerts[alert.alertname] = toSend))
recordSent(sent, alertname, prepared) == [sent EXCEPT ![alertname] = prepared]

\* mutant: only the age of the data suppresses the alerts
suppressedByAgeOnly(slotTimeDiffWithNow, url) == slotTimeDiffWithNow > maxSlotTimeDiff

\* the two early returns of send(epoch)
suppressed(slotTimeDiffWithNow, url) ==
    slotTimeDiffWithNow > maxSlotTimeDiff \/ url = ""

\* beginning of send(epoch) and of sendCriticalAlerts(bySlot): the two early
\* returns, and the loop over the alerts entered otherwise
beginCycle(service, slotTimeDiffWithNow, url) ==
    IF suppressed(slotTimeDiffWithNow, url)
    THEN [IdleCycle EXCEPT !.service = service, !.outcome = "suppressed",
                           !.slotTimeDiff = slotTimeDiffWithNow]
    ELSE [pc |-> "alerts", service |-> service, idx |-> 1, count |-> 0,
          outcome |-> "none", slotTimeDiff |-> slotTimeDiffWithNow]

\* send(epoch) up to the loop over the alerts: suppressed when the data is
\* more than one hour old or no alertmanager URL is configured
BeginSend ==
    /\ alertCycle.pc = "idle"
    /\ \A a \in AlertNames : Len(delivery[a]) < MaxPosts
    /\ \E slotTimeDiffWithNow \in {0, maxSlotTimeDiff + 1} :
        alertCycle' = beginCycle("send", slotTimeDiffWithNow, baseUrl)
    /\ lastToSend' = Undefined
    /\ UNCHANGED <<now, baseUrl, sentAlerts, delivery>>
    /\ UNCHANGED <<chainVars, clientVars, loopVars, attVars, summaryVars, registryVars>>

\* head of the for loop with an alert left: alert.toSend is called, which
\* calls alertRule, which issues storage.getLidoNodeOperatorsStats and awaits
CallToSend ==
    /\ alertCycle.pc = "alerts"
    /\ alertCycle.idx <= Len(alertsOf(alertCycle.service))
    /\ alertCycle' = [alertCycle EXCEPT !.pc = "operators"]
    /\ lastToSend' = Undefined
    /\ UNCHANGED <<now, baseUrl, sentAlerts, delivery>>
    /\ UNCHANGED <<chainVars, clientVars, loopVars, attVars, summaryVars, registryVars>>

\* the operators' statistics arrive: alertRule issues its second query
\* and awaits
OperatorsStatsRead ==
    /\ alertCycle.pc = "operators"
    /\ alertCycle' = [alertCycle EXCEPT !.pc = "stats"]
    /\ UNCHANGED <<now, baseUrl, sentAlerts, lastToSend, delivery>>
    /\ UNCHANGED <<chainVars, clientVars, loopVars, attVars, summaryVars, registryVars>>

\* the second query is answered: alertRule returns the ruleResult, sendRule
\* reads Date.now() and sentAlerts, and toSend resolves; when it prepared
\* an alert, count++ (send only) and fire starts the POST, the callback
\* that records the alert still to run
ToSendResolves ==
    /\ alertCycle.pc = "stats"
    /\ LET alertname == alertsOf(alertCycle.service)[alertCycle.idx] IN
       \E ruleResult \in StoredRuleResults(alertCycle.service, alertname) :
           LET prepared == toSend(alertname, ruleResult, sentAlerts[alertname], now) IN
           /\ lastToSend' = Evaluation(alertname, ruleResult, sentAlerts[alertname], now)
           /\ IF prepared = Undefined
              THEN /\ alertCycle' = [alertCycle EXCEPT !.pc = "alerts", !.idx = @ + 1]
                   /\ UNCHANGED delivery
              ELSE /\ alertCycle' =
                         [alertCycle EXCEPT !.pc = "then",
                                            !.count = IF alertCycle.service = "send"
                                                      THEN @ + 1 ELSE @]
                   /\ delivery' = fire(delivery, alertname, prepared.body)
    /\ UNCHANGED <<now, baseUrl, sentAlerts>>
    /\ UNCHANGED <<chainVars, clientVars, loopVars, attVars, summaryVars, registryVars>>

\* the callback of fire(...).then: sentAlerts[alert.alertname] = toSend, and
\* the loop goes to its next alert
RecordSent ==
    /\ alertCycle.pc = "then"
    /\ sentAlerts' = recordSent(sentAlerts, lastToSend.alertname, lastToSend.toSend)
    /\ alertCycle' = [alertCycle EXCEPT !.pc = "alerts", !.idx = @ + 1]
    /\ UNCHANGED <<now, baseUrl, lastToSend, delivery>>
    /\ UNCHANGED <<chainVars, clientVars, loopVars, attVars, summaryVars, registryVars>>

\* mutant: the error leaves send
catchInSendRethrows(cycle) ==
    [IdleCycle EXCEPT !.service = cycle.service, !.count = cycle.count,
                      !.outcome = "thrown"]

\* the catch block of send: the error is logged and send returns
catchInSend(cycle) ==
    [IdleCycle EXCEPT !.service = cycle.service, !.count = cycle.count,
                      !.outcome = "error"]

\* a storage query of alertRule fails: toSend rejects, the catch around the
\* loop logs and send returns
AlertRuleThrows ==
    /\ alertCycle.pc \in {"operators", "stats"}
    /\ alertCycle' = catchInSend(alertCycle)
    /\ lastToSend' = Undefined
    /\ UNCHANGED <<now, baseUrl, sentAlerts, delivery>>
    /\ UNCHANGED <<chainVars, clientVars, loopVars, attVars, summaryVars, registryVars>>

\* the loop is over: 'Sent critical alerts: count'
EndSend ==
    /\ alertCycle.pc = "alerts"
    /\ alertCycle.idx > Len(alertsOf(alertCycle.service))
    /\ alertCycle' = [IdleCycle EXCEPT !.service = alertCycle.service,
                                      !.count = alertCycle.count, !.outcome = "sent"]
    /\ lastToSend' = Undefined
    /\ UNCHANGED <<now, baseUrl, sentAlerts, delivery>>
    /\ UNCHANGED <<chainVars, clientVars, loopVars, attVars, summaryVars, registryVars>>

\* the event loop takes up timers and answers of the network only when the
\* cycle is not running or awaits a storage query
AtEventLoop == alertCycle.pc \in {"idle", "operators", "stats"}

\* a POST started by fire completes: .then((r) => r.statusCode); the
\* requests in flight are answered in any order
DeliverySucceeds ==
    /\ AtEventLoop
    /\ \E a \in AlertNames : \E i \in 1..Len(delivery[a]) :
        /\ delivery[a][i].state = "pending"
        /\ delivery' = [delivery EXCEPT ![a][i].state = "ok"]
    /\ UNCHANGED <<now, baseUrl, sentAlerts, alertCycle, lastToSend>>
    /\ UNCHANGED <<chainVars, clientVars, loopVars, attVars, summaryVars, registryVars>>

\* a POST started by fire fails: .catch logs the error
DeliveryFails ==
    /\ AtEventLoop
    /\ \E a \in AlertNames : \E i \in 1..Len(delivery[a]) :
        /\ delivery[a][i].state = "pending"
        /\ delivery' = [delivery EXCEPT ![a][i].state = "failed"]
    /\ UNCHANGED <<now, baseUrl, sentAlerts, alertCycle, lastToSend>>
    /\ UNCHANGED <<chainVars, clientVars, loopVars, attVars, summaryVars, registryVars>>

\* an hour passes, between two alert cycles or while a cycle awaits a
\* storage query
Tick ==
    /\ AtEventLoop
    /\ now < StartTime + MaxElapsed
    /\ now' = now + 1
    /\ UNCHANGED <<baseUrl, sentAlerts, alertCycle, lastToSend, delivery>>
    /\ UNCHANGED <<chainVars, clientVars, loopVars, attVars, summaryVars, registryVars>>

InitAlert ==
    /\ InitChain
    /\ IdleClient
    /\ IdleLoop
    /\ IdleAtt
    /\ IdleSummary /\ IdleRegistry
    /\ now = StartTime
    /\ baseUrl \in {"", "http://alertmanager"}
    /\ sentAlerts = [a \in AlertNames |-> Undefined]
    /\ alertCycle = IdleCycle
    /\ lastToSend = Undefined
    /\ delivery = [a \in AlertNames |-> NoPost]

NextAlert ==
    \/ BeginSend
    \/ CallToSend
    \/ OperatorsStatsRead
    \/ ToSendResolves
    \/ RecordSent
    \/ AlertRuleThrows
    \/ EndSend
    \/ DeliverySucceeds
    \/ DeliveryFails
    \/ Tick

SpecAlert == InitAlert /\ [][NextAlert]_vars

------------------------------------------------------------------------------
(* InspectorService.startLoop, await by await.  The chain finalizes        *)
(* further slots while the loop awaits; the hours of the alert rules do    *)
(* not pass within the few slots of a run.                                 *)

\* top of the while loop: line 41
CalculateNext ==
    /\ pc = "calc"
    /\ nextFinalizedSlot' = calculateNextFinalizedSlot
    /\ pc' = "wait"
    /\ UNCHANGED <<chainVars, clientVars, attVars, alertVars, summaryVars, registryVars>>
    /\ UNCHANGED <<config, latestSlotInDb, latestFinalizedBeaconBlock, waitRes, handed,
                   processed>>

\* lines 75-84 and 113-123: the header request for 'finalized' is answered;
\* a failure goes to the catch block of the loop, which sleeps and starts
\* the next cycle; a finalized header at or above the target starts the
\* lookup of the target, any other one the timer
WaitFinalizedHeader ==
    /\ pc = "wait"
    /\ \E fails \in BOOLEAN :
        LET r == getBeaconBlockHeader(FinalizedId, FaultsOf(fails, FinalizedId)) IN
        IF r.kind = "err"
        THEN /\ waitRes' = [NoWait EXCEPT !.kind = "throw"]
             /\ pc' = "calc"
             /\ UNCHANGED <<call, latestFinalizedBeaconBlock>>
        ELSE IF newFinalizedSlotHappened(r.header, nextFinalizedSlot)
        THEN /\ latestFinalizedBeaconBlock' = r.header
             /\ call' = HeaderOrPreviousCalled(nextFinalizedSlot)
             /\ pc' = "waitHeader"
             /\ UNCHANGED waitRes
        ELSE /\ latestFinalizedBeaconBlock' = r.header
             /\ pc' = "waitTimer"
             /\ UNCHANGED <<call, waitRes>>
    /\ UNCHANGED <<view, walk, probe, req, dutyReq>>
    /\ UNCHANGED <<chainVars, attVars, alertVars, summaryVars, registryVars>>
    /\ UNCHANGED <<config, latestSlotInDb, nextFinalizedSlot, handed, processed>>

\* lines 84-110, 42-43: getBeaconBlockHeaderOrPreviousIfMissed has ended;
\* waitForNextFinalizedSlot returns or throws, then the slotToWrite > 0 test
WaitHeaderReturns ==
    /\ pc = "waitHeader"
    /\ call.pc = "done"
    /\ LET w == waitForNextFinalizedSlot(nextFinalizedSlot, call.res) IN
        /\ waitRes' = w
        /\ pc' = IF w.kind = "ok" /\ w.slotToWrite > 0 THEN "process" ELSE "calc"
    /\ call' = NoCall
    /\ latestFinalizedBeaconBlock' = NoHeader
    /\ UNCHANGED <<view, walk, probe, req, dutyReq>>
    /\ UNCHANGED <<chainVars, attVars, alertVars, summaryVars, registryVars>>
    /\ UNCHANGED <<config, latestSlotInDb, nextFinalizedSlot, handed, processed>>

\* lines 121-123, 42-43: the timer fires and the wait resolves to
\* slotToWrite = 0, which ends the cycle
WaitTimer ==
    /\ pc = "waitTimer"
    /\ waitRes' = waitForNextFinalizedSlotTimer
    /\ pc' = "calc"
    /\ latestFinalizedBeaconBlock' = NoHeader
    /\ UNCHANGED <<chainVars, clientVars, attVars, alertVars, summaryVars, registryVars>>
    /\ UNCHANGED <<config, latestSlotInDb, nextFinalizedSlot, handed, processed>>

\* dataProcessor.processAndWriteFinalizedData on success: the slot written
\* becomes the latest slot in the DB
processAndWriteFinalizedData(slotToWrite) == slotToWrite

\* line 44: the slot is handed to processing, which succeeds or throws
ProcessAndWrite ==
    /\ pc = "process"
    /\ handed' = waitRes.slotToWrite
    /\ \/ /\ latestSlotInDb' = processAndWriteFinalizedData(waitRes.slotToWrite)
          /\ processed' = processed \cup {waitRes.slotToWrite}
          /\ pc' = "userStats"
       \/ /\ pc' = "calc"
          /\ UNCHANGED <<latestSlotInDb, processed>>
    /\ UNCHANGED <<chainVars, clientVars, attVars, alertVars, summaryVars, registryVars>>
    /\ UNCHANGED <<config, nextFinalizedSlot, latestFinalizedBeaconBlock, waitRes>>

\* lines 45-52: the remaining steps of the cycle, each of which may throw
LoopStep(from, to) ==
    /\ pc = from
    /\ pc' \in {to, "calc"}
    /\ UNCHANGED <<chainVars, clientVars, attVars, alertVars, summaryVars, registryVars>>
    /\ UNCHANGED <<config, latestSlotInDb, nextFinalizedSlot, latestFinalizedBeaconBlock,
                   waitRes, handed, processed>>

CalculateUserStats == LoopStep("userStats", "otherStats")

CalculateOtherStats == LoopStep("otherStats", "finalize")

FinalizeAppIterate == LoopStep("finalize", "alerts")

\* line 53: criticalAlertService.sendCriticalAlerts(slotToWrite) is called:
\* its early returns, or its loop over the alerts is entered
SendCriticalAlerts ==
    /\ pc = "alerts"
    /\ alertCycle = IdleCycle
    /\ \E slotTimeDiffWithNow \in {0, maxSlotTimeDiff + 1} :
        alertCycle' = beginCycle("sendCriticalAlerts", slotTimeDiffWithNow, baseUrl)
    /\ UNCHANGED <<now, baseUrl, sentAlerts, lastToSend, delivery>>
    /\ UNCHANGED <<chainVars, clientVars, loopVars, attVars, summaryVars, registryVars>>

\* line 53: sendCriticalAlerts has returned, which ends the cycle
SendCriticalAlertsReturns ==
    /\ pc = "alerts"
    /\ alertCycle.pc = "idle"
    /\ alertCycle.outcome # "none"
    /\ alertCycle' = IdleCycle
    /\ pc' = "calc"
    /\ UNCHANGED <<now, baseUrl, sentAlerts, lastToSend, delivery>>
    /\ UNCHANGED <<chainVars, clientVars, attVars, summaryVars, registryVars>>
    /\ UNCHANGED <<config, latestSlotInDb, nextFinalizedSlot, latestFinalizedBeaconBlock,
                   waitRes, handed, processed>>

LoopChainAdvance == pc # "idle" /\ ChainAdvance

InitLoop ==
    /\ InitChain
    /\ IdleClient
    /\ IdleAtt
    /\ IdleSummary /\ IdleRegistry
    /\ now = StartTime
    /\ baseUrl \in {"", "http://alertmanager"}
    /\ sentAlerts = [a \in AlertNames |-> Undefined]
    /\ alertCycle = IdleCycle
    /\ lastToSend = Undefined
    /\ delivery = [a \in AlertNames |-> NoPost]
    /\ config \in [START_SLOT : 0..MaxStartSlot, FETCH_INTERVAL_SLOTS : 1..MaxStep]
    /\ latestSlotInDb \in 0..MaxStartSlot
    /\ pc = "calc"
    /\ nextFinalizedSlot = 0
    /\ latestFinalizedBeaconBlock = NoHeader
    /\ waitRes = NoWait
    /\ handed = -1
    /\ processed = {}

NextLoop ==
    \/ LoopChainAdvance
    \/ CalculateNext
    \/ WaitFinalizedHeader
    \/ HeaderOrPreviousFirst
    \/ HeaderOrPreviousNext
    \/ HeaderOrPreviousWalk
    \/ WaitHeaderReturns
    \/ WaitTimer
    \/ ProcessAndWrite
    \/ CalculateUserStats
    \/ CalculateOtherStats
    \/ FinalizeAppIterate
    \/ SendCriticalAlerts
    \/ CallToSend
    \/ OperatorsStatsRead
    \/ ToSendResolves
    \/ RecordSent
    \/ AlertRuleThrows
    \/ EndSend
    \/ DeliverySucceeds
    \/ DeliveryFails
    \/ SendCriticalAlertsReturns

SpecLoop == InitLoop /\ [][NextLoop]_vars

------------------------------------------------------------------------------
(* sendRule as a function of the ruleResult, the recorded alert and the    *)
(* clock: every record a rule could have left, every ruleResult            *)

\* the records a send of the alert at hour t would have left
SentRecords(alertname, t) ==
    {[kind |-> "sent", timestamp |-> t, body |-> alertBody(alertname, rr, t),
      ruleResult |-> rr] : rr \in RuleResults(alertname) \ {<<>>}}

ApplySendRule ==
    /\ lastToSend = Undefined
    /\ \E alertname \in SourceAlertNames :
       \E ruleResult \in RuleResults(alertname) :
           lastToSend' = Evaluation(alertname, ruleResult, sentAlerts[alertname], now)
    /\ UNCHANGED <<now, baseUrl, sentAlerts, alertCycle, delivery>>
    /\ UNCHANGED <<chainVars, clientVars, loopVars, attVars, summaryVars, registryVars>>

InitSendRule ==
    /\ InitChain
    /\ IdleClient
    /\ IdleLoop
    /\ IdleAtt
    /\ IdleSummary /\ IdleRegistry
    /\ now \in StartTime..(StartTime + MaxElapsed)
    /\ baseUrl = "http://alertmanager"
    /\ \E a \in SourceAlertNames :
       \E rec \in {Undefined} \cup UNION {SentRecords(a, t) : t \in StartTime..now} :
           sentAlerts = [b \in AlertNames |-> IF b = a THEN rec ELSE Undefined]
    /\ alertCycle = IdleCycle
    /\ lastToSend = Undefined
    /\ delivery = [a \in AlertNames |-> NoPost]

NextSendRule == ApplySendRule

SpecSendRule == InitSendRule /\ [][NextSendRule]_vars

------------------------------------------------------------------------------
(* alertRule as a function of the storage contents it reads                *)

\* largest validator or proposal count of an operator
MaxCount == 4

\* storage.getLidoNodeOperatorsStats(bySlot)
RuleOperatorsStats == RowLists([nos_name : Operators, active_ongoing : 1..MaxCount])

\* storage.getValidatorsCountWithNegativeDelta(bySlot)
RuleNegativeCounts == RowLists([nos_name : Operators, neg_count : 0..MaxCount])

\* storage.getLidoNodeOperatorsProposesStats(bySlot)
RuleProposesStats ==
    RowLists({r \in [nos_name : Operators, all : 0..MaxCount, missed : 0..MaxCount] :
                 r.missed <= r.all})

\* the second list alertRule reads, by alert
RuleStats(alertname) ==
    IF alertname = "CriticalNegativeDelta" THEN RuleNegativeCounts
    ELSE RuleProposesStats

\* alert.alertRule(bySlot) over the two lists read from the storage
alertRule(alertname, operators, stats) ==
    IF alertname = "CriticalNegativeDelta"
    THEN CriticalNegativeDelta_alertRule(operators, stats, 1)
    ELSE CriticalMissedProposes_alertRule(operators, stats, 1)

ApplyAlertRule ==
    /\ lastToSend = Undefined
    /\ \E alertname \in SourceAlertNames :
       \E operators \in RuleOperatorsStats, stats \in RuleStats(alertname) :
           lastToSend' = [alertname |-> alertname, operators |-> operators,
                          stats |-> stats,
                          ruleResult |-> alertRule(alertname, operators, stats)]
    /\ UNCHANGED <<now, baseUrl, sentAlerts, alertCycle, delivery>>
    /\ UNCHANGED <<chainVars, clientVars, loopVars, attVars, summaryVars, registryVars>>

InitAlertRule ==
    /\ InitChain
    /\ IdleClient
    /\ IdleLoop
    /\ IdleAtt
    /\ IdleSummary /\ IdleRegistry
    /\ IdleAlert

NextAlertRule == ApplyAlertRule

SpecAlertRule == InitAlertRule /\ [][NextAlertRule]_vars

------------------------------------------------------------------------------
(* SummaryService: lodash merge, set, setMeta, clear, clearMeta            *)
(* A value is a primitive, undefined, a plain object (its own keys and     *)
(* their values), an array, or a Map.                                      *)

Prim(v) == [kind |-> "prim", v |-> v]

Obj(f) == [kind |-> "object", f |-> f]

Arr(e) == [kind |-> "array", e |-> e]

MapRef(id) == [kind |-> "map", id |-> id]

EmptyArray == Arr(<<>>)

\* the own keys of an object or the indexes of an array, with their values
Slots(value) == IF value.kind = "array" THEN value.e ELSE value.f

WithSlots(value, g) == IF value.kind = "array" THEN Arr(g) ELSE Obj(g)

\* variant: Object.assign, the source's top-level values replace the object's
RECURSIVE baseMergeShallow(_, _)
baseMergeShallow(object, source) ==
    WithSlots(object,
        [k \in DOMAIN Slots(object) \cup DOMAIN Slots(source) |->
            IF k \in DOMAIN Slots(source) THEN Slots(source)[k] ELSE Slots(object)[k]])

\* variant: the elements of a source array are appended to the object's array
RECURSIVE baseMergeConcat(_, _)
baseMergeConcat(object, source) ==
    WithSlots(object,
        [k \in DOMAIN Slots(object) \cup DOMAIN Slots(source) |->
            IF k \notin DOMAIN Slots(source) THEN Slots(object)[k]
            ELSE
                LET srcValue == Slots(source)[k]
                    has == k \in DOMAIN Slots(object)
                IN  CASE srcValue.kind = "array" ->
                            IF has /\ Slots(object)[k].kind = "array"
                            THEN Arr(Slots(object)[k].e \o srcValue.e)
                            ELSE srcValue
                      [] srcValue.kind = "object" ->
                            IF has /\ Slots(object)[k].kind = "object"
                            THEN baseMergeConcat(Slots(object)[k], srcValue)
                            ELSE baseMergeConcat(EmptyObject, srcValue)
                      [] srcValue.kind = "undefined" ->
                            IF has THEN Slots(object)[k] ELSE srcValue
                      [] OTHER -> srcValue])

\* lodash baseMerge(object, source): every key of source is merged into
\* object. For a key of source,
\*  - an array is merged into the object's array, or into [] when the object
\*    holds no array there; a plain object into the object's object, or into
\*    {} when the object holds none (baseMergeDeep);
\*  - any other object (a Map) and any primitive is assigned;
\*  - undefined is assigned only when the object has no such key
\*    (assignMergeValue).
\* A key holds values of one kind or undefined, as the interfaces type it.
RECURSIVE baseMerge(_, _)
baseMerge(object, source) ==
    WithSlots(object,
        [k \in DOMAIN Slots(object) \cup DOMAIN Slots(source) |->
            IF k \notin DOMAIN Slots(source) THEN Slots(object)[k]
            ELSE
                LET srcValue == Slots(source)[k]
                    has == k \in DOMAIN Slots(object)
                IN  CASE srcValue.kind = "array" ->
                            IF has /\ Slots(object)[k].kind = "array"
                            THEN baseMerge(Slots(object)[k], srcValue)
                            ELSE baseMerge(EmptyArray, srcValue)
                      [] srcValue.kind = "object" ->
                            IF has /\ Slots(object)[k].kind = "object"
                            THEN baseMerge(Slots(object)[k], srcValue)
                            ELSE baseMerge(EmptyObject, srcValue)
                      [] srcValue.kind = "undefined" ->
                            IF has THEN Slots(object)[k] ELSE srcValue
                      [] OTHER -> srcValue])

\* lodash merge(object, source)
merge(object, source) == baseMerge(object, source)

ValidatorIds == {1, 2}

\* the partial summaries the passes of an epoch hand to set: the balance pass,
\* the attestation pass and the sync pass
Summaries(index) ==
    LET partial(f) == Obj(f @@ [val_id |-> Prim(index)]) IN
    {partial([val_balance |-> b]) : b \in {Undefined, Prim(1), Prim(2)}}
    \cup {partial([att_meta |-> Obj([included_in_block |-> Prim(b)])]) : b \in {1, 2}}
    \cup {partial([att_meta |-> Obj([reward_per_increment |->
                       Obj([source |-> Prim(1), target |-> Prim(1), head |-> Prim(1)])])])}
    \cup {partial([sync_meta |-> Obj([synced_blocks |-> Arr(elems)])]) :
             elems \in {<<Prim(1)>>, <<Prim(2)>>, <<Prim(1), Prim(2)>>}}

\* the partial epoch metas handed to setMeta
Metas ==
    {Obj([state |-> Obj([base_reward |-> Prim(b)])]) : b \in {1, 2}}
    \cup {Obj([state |-> Obj([active_validators |-> Prim(1)])])}
    \cup {Obj([sync |-> Obj([blocks_to_sync |-> Arr(elems)])]) :
             elems \in {<<Prim(2)>>, <<Prim(1), Prim(2)>>}}
    \cup {Obj([attestation |-> Obj([blocks_rewards |-> MapRef(m)])]) : m \in {1, 2}}

\* get(index): this.storage.get(index)
get(index) == IF index \in DOMAIN storage THEN storage[index] ELSE Undefined

\* the storage after set(index, summary) was called on the storage st:
\* curr = this.get(index) ?? {}; this.storage.set(index, merge(curr, summary))
storageAfterSet(st, index, summary) ==
    LET curr == IF index \in DOMAIN st THEN st[index] ELSE EmptyObject IN
    [i \in DOMAIN st \cup {index} |-> IF i = index THEN merge(curr, summary) ELSE st[i]]

\* set(index, summary)
set(index, summary) ==
    /\ opCount < MaxOps
    /\ storage' = storageAfterSet(storage, index, summary)
    /\ inserted' = IF index \in DOMAIN storage THEN inserted ELSE Append(inserted, index)
    /\ lastOp' = [op |-> "set", index |-> index, val |-> summary]
    /\ opCount' = opCount + 1
    /\ UNCHANGED meta
    /\ UNCHANGED <<chainVars, clientVars, loopVars, attVars, alertVars, registryVars>>

\* setMeta(val): curr = this.meta ?? {}; this.meta = merge(curr, val); the
\* call records whether this.meta was nullish
setMeta(val) ==
    /\ opCount < MaxOps
    /\ LET curr == IF meta = Undefined THEN EmptyObject ELSE meta IN
       meta' = merge(curr, val)
    /\ lastOp' = [op |-> "setMeta", val |-> val, nullish |-> meta = Undefined]
    /\ opCount' = opCount + 1
    /\ UNCHANGED <<storage, inserted>>
    /\ UNCHANGED <<chainVars, clientVars, loopVars, attVars, alertVars, registryVars>>

\* clear(): this.storage.clear()
clear ==
    /\ opCount < MaxOps
    /\ storage' = <<>>
    /\ inserted' = <<>>
    /\ lastOp' = [op |-> "clear"]
    /\ opCount' = opCount + 1
    /\ UNCHANGED meta
    /\ UNCHANGED <<chainVars, clientVars, loopVars, attVars, alertVars, registryVars>>

\* getMeta(): this.meta
getMeta == meta

\* mutant: the meta object is kept
clearMetaKeep ==
    /\ opCount < MaxOps
    /\ meta' = meta
    /\ lastOp' = [op |-> "clearMeta"]
    /\ opCount' = opCount + 1
    /\ UNCHANGED <<storage, inserted>>
    /\ UNCHANGED <<chainVars, clientVars, loopVars, attVars, alertVars, registryVars>>

\* clearMeta(): delete this.meta
clearMeta ==
    /\ opCount < MaxOps
    /\ meta' = Undefined
    /\ lastOp' = [op |-> "clearMeta"]
    /\ opCount' = opCount + 1
    /\ UNCHANGED <<storage, inserted>>
    /\ UNCHANGED <<chainVars, clientVars, loopVars, attVars, alertVars, registryVars>>

\* variant: only att_meta is stripped
valuesToWriteKeepSync(st, keys) ==
    [i \in 1..Len(keys) |->
        Obj([k \in DOMAIN st[keys[i]].f \cup {"att_meta"} |->
                IF k = "att_meta" THEN Undefined ELSE st[keys[i]].f[k]])]

\* valuesToWrite(): [...this.storage.values()].map((v) =>
\*   ({ ...v, att_meta: undefined, sync_meta: undefined })), the Map holding
\* the summaries st under the keys in insertion order
valuesToWrite(st, keys) ==
    [i \in 1..Len(keys) |->
        Obj([k \in DOMAIN st[keys[i]].f \cup {"att_meta", "sync_meta"} |->
                IF k \in {"att_meta", "sync_meta"} THEN Undefined
                ELSE st[keys[i]].f[k]])]

\* a call of valuesToWrite; the records are new objects
ValuesToWrite ==
    /\ lastOp.op # "valuesToWrite"
    /\ lastOp' = [op |-> "valuesToWrite", result |-> valuesToWrite(storage, inserted)]
    /\ UNCHANGED <<storage, inserted, meta, opCount>>
    /\ UNCHANGED <<chainVars, clientVars, loopVars, attVars, alertVars, registryVars>>

Set == \E index \in ValidatorIds : \E summary \in Summaries(index) : set(index, summary)

SetMeta == \E val \in Metas : setMeta(val)

InitSummary ==
    /\ InitChain
    /\ IdleClient
    /\ IdleLoop
    /\ IdleAtt
    /\ IdleAlert
    /\ IdleRegistry
    /\ storage = <<>>
    /\ inserted = <<>>
    /\ meta = EmptyObject
    /\ lastOp = NoOp
    /\ opCount = 0

NextSummary == Set \/ SetMeta \/ clear \/ clearMeta \/ ValuesToWrite

SpecSummary == InitSummary /\ [][NextSummary]_vars

------------------------------------------------------------------------------
(* FileSourceService: the validators registry read from a YAML file        *)

\* most operators in a registry file
MaxOperators == 2

\* most update() calls
MaxUpdates == 2

\* an operator entry of the file: a name (possibly empty) and keys (absent,
\* an empty array, or an array of one key)
FileOperators == [name : {"", "A"}, keys : {Undefined, Arr(<<>>), Arr(<<"k">>)}]

\* what js-yaml load gives for the file: nothing, an object without
\* operators, or an object with a list of operators
FileContents ==
    {Undefined, [operators |-> Undefined]}
        \cup {[operators |-> Arr(ops)] :
                 ops \in UNION {[1..n -> FileOperators] : n \in 0..MaxOperators}}

\* o.name && o.keys?.length
operatorIsValid(o) == o.name # "" /\ o.keys # Undefined /\ Len(o.keys.e) > 0

\* isValid(data): `valid` is assigned anew for every operator of the list, so
\* the value returned is the one of the last operator
isValid(data) ==
    IF data = Undefined THEN FALSE
    ELSE IF data.operators = Undefined THEN FALSE
    ELSE IF Len(data.operators.e) = 0 THEN FALSE
    ELSE operatorIsValid(data.operators.e[Len(data.operators.e)])

\* the log line of update reads o.keys.length of every operator: a TypeError
\* when an operator has no keys property
logThrows(data) ==
    \E i \in 1..Len(data.operators.e) : data.operators.e[i].keys = Undefined

\* update(): what the call leaves in the service when readFile gives the
\* content `file` at time `t` (readFailed: readFile rejects)
update(reg, file, readFailed, t) ==
    IF readFailed THEN [reg EXCEPT !.last = [op |-> "update", file |-> file, threw |-> TRUE]]
    ELSE IF ~isValid(file)
    THEN [reg EXCEPT !.last = [op |-> "update", file |-> file, threw |-> TRUE]]
    ELSE IF logThrows(file)
    THEN [reg EXCEPT !.last = [op |-> "update", file |-> file, threw |-> TRUE]]
    ELSE [reg EXCEPT !.lastSuccessDataReadTimestamp = Prim(t), !.data = file,
                     !.last = [op |-> "update", file |-> file, threw |-> FALSE]]

\* a call of update(); the clock counts the calls
Update ==
    /\ registry.clock < MaxUpdates
    /\ \E file \in FileContents, readFailed \in BOOLEAN :
        registry' = [update(registry, file, readFailed, registry.clock + 1)
                        EXCEPT !.clock = registry.clock + 1]
    /\ UNCHANGED <<chainVars, clientVars, loopVars, attVars, alertVars, summaryVars>>

InitRegistry ==
    /\ InitChain
    /\ IdleClient
    /\ IdleLoop
    /\ IdleAtt
    /\ IdleAlert
    /\ IdleSummary
    /\ registry = NewRegistry

NextRegistry == Update

SpecRegistry == InitRegistry /\ [][NextRegistry]_vars

------------------------------------------------------------------------------
(* Claims about the driver loop (SpecLoop)                                 *)

startingSlot ==
    IF latestSlotInDb >= config.START_SLOT THEN latestSlotInDb ELSE config.START_SLOT

IsEpochLastSlot(x) == (x + 1) % config.FETCH_INTERVAL_SLOTS = 0

\* C1: the slot calculateNextFinalizedSlot returns is the last slot of an
\* epoch, lies strictly above s = max(latestSlotInDb, START_SLOT), at most one
\* step above it, no epoch-last slot lies between s and it, and it is s + step
\* when s is itself the last slot of an epoch.
C1_NextSlotAligned ==
    pc = "wait" =>
        LET s == startingSlot
            r == nextFinalizedSlot
            step == config.FETCH_INTERVAL_SLOTS
        IN  /\ IsEpochLastSlot(r)
            /\ r > s
            /\ r - s <= step
            /\ \A x \in (s + 1)..(r - 1) : ~IsEpochLastSlot(x)
            /\ IsEpochLastSlot(s) => r = s + step

\* C1 witness: after an epoch was written, the starting slot is the DB slot,
\* itself the last slot of an epoch longer than one slot, and the next target
\* is one full step above it.
C1_Witness ==
    /\ pc = "wait"
    /\ config.FETCH_INTERVAL_SLOTS > 1
    /\ latestSlotInDb > config.START_SLOT
    /\ latestSlotInDb \in processed
    /\ IsEpochLastSlot(latestSlotInDb)
    /\ nextFinalizedSlot = latestSlotInDb + config.FETCH_INTERVAL_SLOTS

\* C2 as stated: every slotToWrite handed to processAndWriteFinalizedData is
\* strictly greater than the one handed before it.
C2_StrictlyIncreasing ==
    pc = "process" => waitRes.slotToWrite > handed

\* C2 amended: the slots handed to processing never decrease, each is the last
\* slot of an epoch, a slot is handed again only while its processing has not
\* succeeded, and every handed slot is above every successfully processed one.
C2_NoReprocessing ==
    pc = "process" =>
        /\ waitRes.slotToWrite >= handed
        /\ IsEpochLastSlot(waitRes.slotToWrite)
        /\ \A p \in processed : waitRes.slotToWrite > p
        /\ waitRes.slotToWrite = handed => handed \notin processed

\* C2 witness: a second epoch is handed to processing after the first one was
\* processed successfully, its target slot being a missed one.
C2_Witness ==
    /\ pc = "process"
    /\ handed \in processed
    /\ waitRes.slotToWrite > handed
    /\ waitRes.slotNumber < waitRes.slotToWrite

------------------------------------------------------------------------------
(* Claims about the Eth2Client (SpecClient)                                *)

\* the call has returned or thrown
HeaderOrPreviousDone ==
    call.op = "getBeaconBlockHeaderOrPreviousIfMissed" /\ call.pc = "done"

\* C3: getBeaconBlockHeaderOrPreviousIfMissed(slot) answers (header of slot,
\* false) when the chain holds a block at the slot, and (header of the
\* highest block below slot, true) when the slot holds none and a block
\* exists within the forward search depth; in these cases it fails only
\* when a request fails.  Whatever it answers is right for the chain: a
\* header with isMissed false is the block of the slot, one with isMissed
\* true is the highest block below a slot without a block.
C3_HeaderOrPrevious ==
    HeaderOrPreviousDone =>
        LET slot == call.slot
            r == call.res
            below == {b \in blocks : b < slot}
        IN  /\ (call.atCall.hasBlock \/ call.atCall.hasNext) =>
                   (r.kind = "err" => r.code = 500)
            /\ (call.atCall.hasBlock /\ r.kind = "ok") =>
                   /\ ~r.isMissed
                   /\ r.header = Header(slot)
            /\ (~call.atCall.hasBlock /\ call.atCall.hasNext /\ r.kind = "ok") =>
                   /\ r.isMissed
                   /\ r.header = Header(SetMax(below))
            /\ (r.kind = "ok" /\ ~r.isMissed) =>
                   slot \in blocks /\ r.header = Header(slot)
            /\ (r.kind = "ok" /\ r.isMissed) =>
                   slot \notin blocks /\ r.header = Header(SetMax(below))

\* C3 witness: the requested slot and the one before it are missed, a later
\* block exists, and the answer is the block two slots below with isMissed.
C3_Witness ==
    /\ HeaderOrPreviousDone
    /\ call.atCall.hasNext
    /\ call.slot \notin blocks
    /\ (call.slot - 1) \notin blocks
    /\ call.res.kind = "ok"
    /\ call.res.isMissed
    /\ call.res.header.slotNumber = call.slot - 2

\* the slot was finalized with a block while the call was searching above
\* it: the call fails with the 404 of the chain it was made on
HeaderOrPreviousOvertaken ==
    /\ HeaderOrPreviousDone
    /\ call.slot \in blocks
    /\ call.res.kind = "err"
    /\ call.res.code = 404

------------------------------------------------------------------------------
(* Claims about writeAttestations (SpecAtt)                                *)

\* the candidate blocks above the duty's slot that carry an attestation for
\* the duty's (slot, committee) with the validator's position set
IncludingBlocks(row) ==
    {b \in DOMAIN attDutyResult.blocksAttestations :
        /\ b > row.slot
        /\ \E i \in 1..Len(attDutyResult.blocksAttestations[b]) :
            LET att == attDutyResult.blocksAttestations[b][i] IN
            /\ att.slot = row.slot
            /\ att.committee_index = row.committee_index
            /\ att.bits[row.validator_committee_index]}

\* the missed slots strictly between the duty's slot and block b
MissedBetween(row, b) ==
    {m \in 0..MaxAttSlot :
        /\ \E i \in 1..Len(attDutyResult.allMissedSlots) : attDutyResult.allMissedSlots[i] = m
        /\ m > row.slot
        /\ m < b}

InclusionRule(row) ==
    row.attested <=>
        /\ IncludingBlocks(row) # {}
        /\ LET B == SetMin(IncludingBlocks(row)) IN
           B - row.slot - Cardinality(MissedBetween(row, B))
               <= ATTESTATION_MAX_INCLUSION_IN_BLOCK_DELAY

\* no candidate block carries two attestations for the same (slot, committee)
OneAggregatePerCommittee ==
    \A b \in DOMAIN attDutyResult.blocksAttestations :
        \A i, j \in 1..Len(attDutyResult.blocksAttestations[b]) :
            LET f == attDutyResult.blocksAttestations[b] IN
            (f[i].slot = f[j].slot /\ f[i].committee_index = f[j].committee_index) => i = j

\* C4: every written duty is attested exactly when the nearest candidate block
\* above its slot that includes the validator's committee position lies within
\* ATTESTATION_MAX_INCLUSION_IN_BLOCK_DELAY slots of it, missed slots between
\* the two not counted.
C4_InclusionRule ==
    \A i \in 1..Len(rows) : InclusionRule(rows[i])

\* The inclusion rule of C4 on inputs whose blocks carry at most one
\* attestation per (slot, committee): there the code follows it.
InclusionRuleOneAggregate ==
    OneAggregatePerCommittee => \A i \in 1..Len(rows) : InclusionRule(rows[i])

\* A duty is written attested although the including block is two slots
\* above it, the slot between them being missed.
InclusionOverMissedSlot ==
    \E i \in 1..Len(rows) :
        /\ rows[i].attested
        /\ rows[i].in_block = rows[i].slot + 2
        /\ MissedBetween(rows[i], rows[i].in_block) # {}

\* the candidate blocks above the duty's slot that carry an attestation for
\* the duty's (slot, committee), whatever its bits
CommitteeBlocks(row) ==
    {b \in DOMAIN attDutyResult.blocksAttestations :
        /\ b > row.slot
        /\ \E i \in 1..Len(attDutyResult.blocksAttestations[b]) :
            LET att == attDutyResult.blocksAttestations[b][i] IN
            att.slot = row.slot /\ att.committee_index = row.committee_index}

\* C28: a duty for which no candidate block above its slot includes the
\* validator's committee position is written with attested = false.
C28_NotIncludedNotAttested ==
    \A i \in 1..Len(rows) :
        IncludingBlocks(rows[i]) = {} => ~rows[i].attested

\* a duty was written not attested although a block above its slot carries an
\* attestation of its committee, which lacks the validator's position
C28_Witness ==
    \E i \in 1..Len(rows) :
        /\ IncludingBlocks(rows[i]) = {}
        /\ CommitteeBlocks(rows[i]) # {}
        /\ ~rows[i].attested

------------------------------------------------------------------------------
(* Claims about sendRule (SpecSendRule)                                    *)

evaluated == lastToSend # Undefined

\* hours between the evaluation and the recorded send; with no record the
\* whole time since the epoch
elapsed == lastToSend.at - (IF lastToSend.prev = Undefined THEN 0 ELSE lastToSend.prev.timestamp)

\* the payload the operator had in the last sent ruleResult, if any
lastSent(operator) ==
    IF lastToSend.prev = Undefined THEN Undefined
    ELSE LET hits == {i \in 1..Len(lastToSend.prev.ruleResult) :
                         lastToSend.prev.ruleResult[i].operator = operator}
         IN  IF hits = {} THEN Undefined ELSE lastToSend.prev.ruleResult[SetMin(hits)].value

\* the operator's severity metric is strictly above its last sent value,
\* an operator absent from the last sent ruleResult counting as 0:
\* negDelta for CriticalNegativeDelta, missed / all for CriticalMissedProposes
Worsened(entry) ==
    LET was == lastSent(entry.operator) IN
    IF lastToSend.alertname = "CriticalNegativeDelta"
    THEN entry.value.negDelta > (IF was = Undefined THEN 0 ELSE was.negDelta)
    ELSE IF was = Undefined THEN entry.value.missed > 0
         ELSE entry.value.missed * was.all > was.missed * entry.value.all

\* C5: a non-empty ruleResult evaluated more than the default interval after
\* the last recorded send of the alert, or with no send recorded, is sent,
\* whichever the alert.
C5_DefaultInterval ==
    (evaluated /\ Len(lastToSend.ruleResult) > 0 /\ elapsed > defaultInterval)
        => lastToSend.send

\* The rule of C5 for CriticalNegativeDelta alone.
NegativeDeltaDefaultInterval ==
    (evaluated /\ lastToSend.alertname = "CriticalNegativeDelta"
        /\ Len(lastToSend.ruleResult) > 0 /\ elapsed > defaultInterval)
        => lastToSend.send

\* C6: a non-empty ruleResult evaluated more than the escalation interval
\* after the last recorded send, in which some operator's severity metric is
\* strictly above its last sent value, is sent.
C6_Escalation ==
    (evaluated /\ Len(lastToSend.ruleResult) > 0 /\ elapsed > ifIncreasedInterval
        /\ \E i \in 1..Len(lastToSend.ruleResult) : Worsened(lastToSend.ruleResult[i]))
        => lastToSend.send

\* The rule of C6 for CriticalNegativeDelta alone.
NegativeDeltaEscalation ==
    (evaluated /\ lastToSend.alertname = "CriticalNegativeDelta"
        /\ Len(lastToSend.ruleResult) > 0 /\ elapsed > ifIncreasedInterval
        /\ \E i \in 1..Len(lastToSend.ruleResult) : Worsened(lastToSend.ruleResult[i]))
        => lastToSend.send

\* the ruleResult holds the same operators with the same payloads as the one
\* recorded with the last send
SameAsLastSent ==
    /\ lastToSend.prev # Undefined
    /\ {lastToSend.ruleResult[i] : i \in 1..Len(lastToSend.ruleResult)}
         = {lastToSend.prev.ruleResult[i] : i \in 1..Len(lastToSend.prev.ruleResult)}

\* C7: a ruleResult equal to the one recorded with the last send, evaluated
\* less than the default interval after that send, is not sent, whichever
\* the alert.
C7_Hysteresis ==
    (evaluated /\ SameAsLastSent /\ elapsed < defaultInterval) => ~lastToSend.send

\* CriticalNegativeDelta is evaluated on the ruleResult of its last send, past
\* the escalation interval and before the default one, and is not sent.
C7_Witness ==
    /\ evaluated
    /\ lastToSend.alertname = "CriticalNegativeDelta"
    /\ SameAsLastSent
    /\ elapsed > ifIncreasedInterval
    /\ elapsed < defaultInterval
    /\ ~lastToSend.send

\* CriticalMissedProposes is evaluated on the ruleResult of its last send
\* before the default interval has passed, and is not sent.
MissedProposesHysteresis ==
    /\ evaluated
    /\ lastToSend.alertname = "CriticalMissedProposes"
    /\ SameAsLastSent
    /\ elapsed < defaultInterval
    /\ ~lastToSend.send

------------------------------------------------------------------------------
(* Claims about the alert cycle (SpecAlert)                                *)

\* the step is one pass of the loop of send over the alerts
AlertProcessed ==
    /\ alertCycle.pc = "stats"
    /\ alertCycle'.pc \in {"alerts", "then"}

\* C8: whatever was recorded and whatever the time, a pass of the alert cycle
\* whose rule gave an empty ruleResult has sendRule false, prepares no alert,
\* starts no POST and leaves the recorded alerts as they were: toSend
\* resolves to undefined and the loop goes to its next alert with no
\* callback pending, and an alert is recorded only by the callback of a
\* non-empty ruleResult.
C8_EmptyNeverSends ==
    /\ [][(AlertProcessed /\ lastToSend'.ruleResult = <<>>)
             => /\ ~lastToSend'.send
                /\ lastToSend'.toSend = Undefined
                /\ sentAlerts' = sentAlerts
                /\ delivery' = delivery
                /\ alertCycle'.count = alertCycle.count
                /\ alertCycle'.pc = "alerts"
                /\ alertCycle'.idx = alertCycle.idx + 1]_vars
    /\ [][sentAlerts' # sentAlerts
             => alertCycle.pc = "then" /\ lastToSend.ruleResult # <<>>]_vars

\* An alert that was sent is evaluated again more than the default interval
\* later with an empty ruleResult; it is not sent and its record stays.
C8_Witness ==
    /\ lastToSend # Undefined
    /\ lastToSend.ruleResult = <<>>
    /\ lastToSend.prev # Undefined
    /\ lastToSend.at - lastToSend.prev.timestamp > defaultInterval
    /\ ~lastToSend.send
    /\ sentAlerts[lastToSend.alertname] = lastToSend.prev

\* C9: an alert is recorded in sentAlerts only once its POST to the
\* alertmanager has completed successfully; while the POST is in flight or
\* after it failed the record is not the alert of that POST.
C9_RecordedAfterDelivery ==
    \A a \in AlertNames :
        sentAlerts[a] # Undefined
            => \E i \in 1..Len(delivery[a]) :
                   /\ delivery[a][i].body = sentAlerts[a].body
                   /\ delivery[a][i].state = "ok"

\* The POST of an alert failed and the alert is recorded as sent; a later
\* cycle finds the same ruleResult and does not send.
RecordedThoughDeliveryFailed ==
    /\ lastToSend # Undefined
    /\ lastToSend.prev # Undefined
    /\ \E i \in 1..Len(delivery[lastToSend.alertname]) :
           /\ delivery[lastToSend.alertname][i].state = "failed"
           /\ delivery[lastToSend.alertname][i].body = lastToSend.prev.body
    /\ lastToSend.ruleResult = lastToSend.prev.ruleResult
    /\ ~lastToSend.send

------------------------------------------------------------------------------
(* Claims about the SummaryService (SpecSummary)                           *)

\* the key an array index is to JavaScript
IndexName == <<"0", "1", "2", "3">>

IsPrefix(p, q) == Len(p) <= Len(q) /\ SubSeq(q, 1, Len(p)) = p

\* the leaves of a value: every primitive, undefined or Map it holds, with
\* the keys and indexes that lead to it
RECURSIVE Leaves(_, _)
Leaves(value, path) ==
    IF value.kind \in {"object", "array"}
    THEN UNION {Leaves(Slots(value)[k],
                       Append(path, IF value.kind = "array" THEN IndexName[k] ELSE k)) :
                   k \in DOMAIN Slots(value)}
    ELSE {[path |-> path, v |-> value]}

\* the step is a call of set, respectively setMeta
SetCalled == opCount' = opCount + 1 /\ lastOp'.op = "set"

SetMetaCalled == opCount' = opCount + 1 /\ lastOp'.op = "setMeta"

\* what was stored before the call: {} when nothing was
StoredBefore(index) == IF index \in DOMAIN storage THEN storage[index] ELSE EmptyObject

MetaBefore == IF meta = Undefined THEN EmptyObject ELSE meta

\* the summaries of all other validators are unchanged, and a summary absent
\* before the call is created equal to the partial
SetFrame ==
    /\ DOMAIN storage' = DOMAIN storage \cup {lastOp'.index}
    /\ \A i \in DOMAIN storage \ {lastOp'.index} : storage'[i] = storage[i]
    /\ lastOp'.index \notin DOMAIN storage => storage'[lastOp'.index] = lastOp'.val
    /\ meta' = meta

\* every field of the partial has the partial's value and every other field
\* of the previous object is unchanged
FieldwiseMerged(old, partial, new) ==
    /\ DOMAIN new.f = DOMAIN old.f \cup DOMAIN partial.f
    /\ \A k \in DOMAIN partial.f : new.f[k] = partial.f[k]
    /\ \A k \in DOMAIN old.f \ DOMAIN partial.f : new.f[k] = old.f[k]

\* every leaf of the partial that is not undefined is in the new object,
\* every leaf of the previous object at which the partial has no such leaf is
\* unchanged, an undefined of the partial appears only where the previous
\* object held nothing, and the new object has no other leaf
LeafwiseMerged(old, partial, new) ==
    LET given == {l \in Leaves(partial, <<>>) : l.v # Undefined}
        kept == {l \in Leaves(old, <<>>) : \A m \in given : m.path # l.path}
        fresh == {l \in Leaves(partial, <<>>) :
                     /\ l.v = Undefined
                     /\ \A m \in Leaves(old, <<>>) : ~IsPrefix(l.path, m.path)}
    IN  Leaves(new, <<>>) = given \cup kept \cup fresh

\* C10 as stated: after set(validatorId, partial) every field present in
\* partial has partial's value, every other field of the previous summary is
\* unchanged, the other validators' summaries are unchanged and an absent
\* summary is created equal to partial; setMeta does the same to the meta.
C10_FieldwiseSet ==
    [][/\ SetCalled =>
            /\ SetFrame
            /\ FieldwiseMerged(StoredBefore(lastOp'.index), lastOp'.val,
                               storage'[lastOp'.index])
       /\ SetMetaCalled =>
            /\ storage' = storage
            /\ FieldwiseMerged(MetaBefore, lastOp'.val, meta')]_vars

\* C10, amended: set(validatorId, partial) merges partial into the previous
\* summary leaf by leaf (through nested objects and array indexes): defined
\* leaves of partial are taken, all other previous leaves stay, the other
\* validators' summaries are unchanged and an absent summary is created equal
\* to partial; setMeta does the same to the meta.
C10_DeepMergeSet ==
    [][/\ SetCalled =>
            /\ SetFrame
            /\ LeafwiseMerged(StoredBefore(lastOp'.index), lastOp'.val,
                              storage'[lastOp'.index])
       /\ SetMetaCalled =>
            /\ storage' = storage
            /\ LeafwiseMerged(MetaBefore, lastOp'.val, meta')]_vars

\* A set has merged a partial att_meta into the stored one, which now holds
\* the sub-fields of both passes, while another validator has a summary.
C10_Witness ==
    /\ lastOp.op = "set"
    /\ "att_meta" \in DOMAIN lastOp.val.f
    /\ "att_meta" \in DOMAIN storage[lastOp.index].f
    /\ storage[lastOp.index].f["att_meta"] # lastOp.val.f["att_meta"]
    /\ DOMAIN storage[lastOp.index].f["att_meta"].f
         = {"included_in_block", "reward_per_increment"}
    /\ DOMAIN storage # {lastOp.index}

\* the two partials give the same value wherever both set a leaf (every
\* partial carries the validator's val_id); all their other fields differ
DifferentFields(p, q) ==
    \A l \in Leaves(p, <<>>) : \A m \in Leaves(q, <<>>) : l.path = m.path => l.v = m.v

\* every validator with every two partials of different fields
DifferentFieldsPairs ==
    UNION {{t \in [v : {v}, p : Summaries(v), q : Summaries(v)] :
               DifferentFields(t.p, t.q)} : v \in ValidatorIds}

\* C11: on every stored content on which set can be called, for every
\* validator and any two partials that set different fields, set(v, p); set(v, q) leaves the same storage as
\* set(v, q); set(v, p), and set(v, p); set(v, p) the same as one set(v, p).
C11_OrderIndependentIdempotent ==
    opCount < MaxOps =>
        /\ \A t \in DifferentFieldsPairs :
              storageAfterSet(storageAfterSet(storage, t.v, t.p), t.v, t.q)
                = storageAfterSet(storageAfterSet(storage, t.v, t.q), t.v, t.p)
        /\ \A v \in ValidatorIds : \A p \in Summaries(v) :
              storageAfterSet(storageAfterSet(storage, v, p), v, p)
                = storageAfterSet(storage, v, p)

\* Two set calls with partials of different fields were made for a validator
\* that had a summary; the stored summary holds both and is the one the
\* calls leave in the other order.
C11_Witness ==
    /\ opCount = MaxOps
    /\ lastOp.op = "set"
    /\ \E p \in Summaries(lastOp.index) :
        /\ DifferentFields(p, lastOp.val)
        /\ DOMAIN p.f # DOMAIN lastOp.val.f
        /\ \E first \in Summaries(lastOp.index) :
            LET was == merge(EmptyObject, first) IN
            /\ storage[lastOp.index] = merge(merge(was, p), lastOp.val)
            /\ storage[lastOp.index] = merge(merge(was, lastOp.val), p)
            /\ storage[lastOp.index] # merge(was, p)
            /\ storage[lastOp.index] # merge(was, lastOp.val)

\* the step is a call of valuesToWrite
ValuesToWriteCalled == lastOp.op # "valuesToWrite" /\ lastOp'.op = "valuesToWrite"

\* the record is the stored summary without its transient metadata
Stripped(record, summary) ==
    /\ record.kind = "object"
    /\ \A k \in {"att_meta", "sync_meta"} :
          k \in DOMAIN record.f => record.f[k] = Undefined
    /\ DOMAIN record.f \ {"att_meta", "sync_meta"}
         = DOMAIN summary.f \ {"att_meta", "sync_meta"}
    /\ \A k \in DOMAIN summary.f \ {"att_meta", "sync_meta"} : record.f[k] = summary.f[k]

\* C12: valuesToWrite returns one record per stored validator, with att_meta
\* and sync_meta undefined and every other field as stored, and leaves the
\* stored summaries as they were.
C12_ValuesToWrite ==
    [][ValuesToWriteCalled =>
          /\ storage' = storage
          /\ Len(lastOp'.result) = Cardinality(DOMAIN storage)
          /\ \A v \in DOMAIN storage :
                \E i \in 1..Len(lastOp'.result) :
                    /\ Stripped(lastOp'.result[i], storage[v])
                    /\ \A j \in 1..Len(lastOp'.result) :
                          lastOp'.result[j].f["val_id"] = Prim(v) => j = i]_vars

\* valuesToWrite was called with two validators stored, one of them with
\* att_meta and one with sync_meta; the records carry neither, the stored
\* summaries still do.
C12_Witness ==
    /\ lastOp.op = "valuesToWrite"
    /\ Len(lastOp.result) = 2
    /\ \E v, w \in DOMAIN storage :
        /\ "att_meta" \in DOMAIN storage[v].f
        /\ "sync_meta" \in DOMAIN storage[w].f
        /\ storage[v].f["att_meta"] # Undefined
        /\ storage[w].f["sync_meta"] # Undefined
    /\ \A i \in 1..Len(lastOp.result) :
        /\ lastOp.result[i].f["att_meta"] = Undefined
        /\ lastOp.result[i].f["sync_meta"] = Undefined

------------------------------------------------------------------------------
(* Claims on checkSlotIsMissed                                             *)

WalkDone == walk.pc = "done"

\* the headers the walk reached after the next block follow the parent roots
\* and, but for the last one, lie above the slot
WalkFollowsParents ==
    /\ \A i \in 2..Len(walk.path) :
          getBeaconBlockHeaderIn(view, walk.path[i - 1].parentRoot) = Ok(walk.path[i])
    /\ \A i \in 1..(Len(walk.path) - 1) : walk.path[i].slotNumber > walk.slotNumber

\* C13: checkSlotIsMissed(target, next) with next.slotNumber >= target walks
\* the parent chain from next and returns the first header it reaches whose
\* slot is not above the target: not missed if the slot is the target, missed
\* if it is below; with next.slotNumber = target it returns (false, next)
\* without a lookup; a failure is the failure of a header lookup.
C13_WalkResult ==
    (WalkDone /\ walk.first.slotNumber >= walk.slotNumber) =>
        /\ WalkFollowsParents
        /\ walk.path[1] = walk.first
        /\ walk.res.kind = "ok" =>
              /\ walk.res.header = walk.path[Len(walk.path)]
              /\ walk.lookups = Len(walk.path) - 1
              /\ walk.res.header.slotNumber <= walk.slotNumber
              /\ walk.res.isMissed <=> (walk.res.header.slotNumber < walk.slotNumber)
        /\ walk.res.kind = "err" =>
              /\ walk.res.code \in {404, 500}
              /\ walk.lookups = Len(walk.path)
              /\ getBeaconBlockHeaderIn(view, walk.path[Len(walk.path)].parentRoot) = walk.res
        /\ walk.first.slotNumber = walk.slotNumber =>
              walk.res = Ok(walk.first) /\ walk.lookups = 0

\* the walk passed an ancestor above the slot and ended at one below it, in
\* a view whose slots fall along the parent roots
C13_Witness ==
    /\ WalkDone
    /\ walk.res.kind = "ok"
    /\ walk.res.isMissed
    /\ walk.lookups = 2
    /\ \A i \in 2..Len(walk.path) : walk.path[i].slotNumber < walk.path[i - 1].slotNumber

\* C14: checkSlotIsMissed(target, next) with next.slotNumber < target throws
\* the plain Error of an inconsistent chain and looks no header up.
C14_InconsistentChain ==
    (WalkDone /\ walk.first.slotNumber < walk.slotNumber) =>
        /\ walk.res = Err(0)
        /\ walk.lookups = 0
        /\ walk.path = <<walk.first>>

\* the next block lies below the slot although the view would answer the
\* lookup of its parent
C14_Witness ==
    /\ WalkDone
    /\ walk.first.slotNumber < walk.slotNumber
    /\ view[walk.first.parentRoot].kind = "ok"

\* the slots probed go from the first slot one by one, every probe but the
\* last found no block, and the outcome is that of the last probe
ProbesInOrder ==
    /\ Len(probe.probed) >= 1
    /\ \A i \in 1..Len(probe.probed) :
          probe.probed[i] = IF probe.op = "next" THEN probe.slot + (i - 1)
                            ELSE probe.slot - (i - 1)
    /\ \A i \in 1..(Len(probe.probed) - 1) :
          getBeaconBlockHeader(SlotId(probe.probed[i]), probe.faults) = Err(404)
    /\ probe.res = getBeaconBlockHeader(SlotId(probe.probed[Len(probe.probed)]), probe.faults)

ProbeDone == probe.pc = "done"

\* C15: the searches probe slot, slot +/- 1, ... one at a time, stop at the
\* first slot whose header exists, probe no more than maxDepth slots, and end
\* with a failure of their own (not the 404 of a probe) when every probed
\* slot is missing.
C15_AtMostMaxDepthProbes ==
    ProbeDone =>
        /\ ProbesInOrder
        /\ Len(probe.probed) <= probe.maxDeep
        /\ probe.res.kind = "err" => probe.res.code # 404

\* What the searches do: they probe slot, slot +/- 1, ... one at a time and
\* stop at the first probe that is answered with a header or fails with
\* another error than 404; they probe up to maxDeep + 1 slots, and when all
\* of these are missing they rethrow the 404 error of the last probe, which
\* nothing tells apart from the 404 of a single missing slot.
C15_AtMostMaxDepthPlusOneProbes ==
    ProbeDone =>
        /\ ProbesInOrder
        /\ Len(probe.probed) <= probe.maxDeep + 1
        /\ probe.res = Err(404) => Len(probe.probed) = probe.maxDeep + 1
        /\ probe.res = IF probe.op = "next"
                       THEN getNextNotMissedBlockHeader(probe.slot, probe.maxDeep, probe.faults)
                       ELSE getPreviousNotMissedBlockHeader(probe.slot, probe.maxDeep, probe.faults)

\* a backward search gave up after maxDeep + 1 missing slots, with the 404
\* of its last probe
C15_Witness ==
    /\ ProbeDone
    /\ probe.op = "previous"
    /\ probe.maxDeep >= 1
    /\ probe.res = Err(404)
    /\ Len(probe.probed) = probe.maxDeep + 1

\* C16: the walk never looks up more than maxDepth ancestors.
C16_BoundedWalk == walk.lookups <= defaultMaxDeep

\* the same ancestor is looked up again and again
WalkRevisits ==
    /\ walk.pc = "running"
    /\ walk.lookups > defaultMaxDeep
    /\ \E i, j \in 1..Len(walk.path) : i < j /\ walk.path[i] = walk.path[j]

------------------------------------------------------------------------------
(* Claims on retryRequest                                                  *)

\* the requests of the running call sent to one endpoint
RequestsTo(url) == {i \in 1..Len(req.log) : req.log[i].url = url}

\* the initial request and all retries of the main endpoint were made
MainAttempts == 1 + retrier(req.maxRetries)

RetryDone == req.pc = "done"

\* C17: the backup endpoint is contacted only after the initial request and
\* all retries of the main endpoint failed and the last failure satisfies the
\* fallback condition; a main request that succeeds ends the call with its
\* result and without a request to the backup; when all main requests fail,
\* the condition holds and no backup is configured, the call fails with the
\* error of the last main request.
C17_FallbackOrdering ==
    /\ RequestsTo("backup") # {} =>
          /\ req.backup # ""
          /\ \A i \in 1..MainAttempts : req.log[i].url = "main" /\ req.log[i].code # 200
          /\ \A i \in RequestsTo("backup") : i > MainAttempts
          /\ fallbackConditionCallback(req.fallbackCondition, req.log[MainAttempts])
    /\ \A i \in RequestsTo("main") :
          req.log[i].code = 200 =>
              /\ i = Len(req.log)
              /\ RetryDone
              /\ req.res = Answer(200)
    /\ ( /\ RetryDone
         /\ req.backup = ""
         /\ Len(req.log) = MainAttempts
         /\ req.log[MainAttempts].code # 200 ) =>
          /\ req.res = Answer(req.log[MainAttempts].code)
          /\ RequestsTo("backup") = {}

\* the backup answered after the main endpoint had failed every time
C17_Witness ==
    /\ RetryDone
    /\ req.res = Answer(200)
    /\ RequestsTo("backup") # {}
    /\ Len(req.log) > MainAttempts + 1

\* C18: a header lookup whose first request is answered 404 by the main
\* endpoint sends no further request, and the caller receives the 404.
C18_NotFoundNotRetried ==
    ( /\ req.fallbackCondition = "not404"
      /\ Len(req.log) >= 1
      /\ req.log[1].code = 404 ) =>
        /\ Len(req.log) = 1
        /\ RetryDone
        /\ req.res = Answer(404)

\* the main endpoint is asked again after its 404
NotFoundRetried ==
    /\ req.fallbackCondition = "not404"
    /\ Len(req.log) > 1
    /\ req.log[1] = [url |-> "main", code |-> 404]
    /\ req.log[2].url = "main"

\* after a 404 the header lookup ends with another outcome, reached at the
\* backup endpoint
NotFoundThenBackup ==
    /\ RetryDone
    /\ req.fallbackCondition = "not404"
    /\ req.log[1].code = 404
    /\ RequestsTo("backup") # {}
    /\ req.res # Answer(404)

------------------------------------------------------------------------------
(* Claims on the canonical duties                                          *)

DutyDone == dutyReq.pc = "done"

\* the responses whose dependent root is the expected one
Matching ==
    {i \in 1..Len(dutyReq.responses) :
        /\ dutyReq.responses[i].kind = "ok"
        /\ dutyReq.responses[i].dependent_root = dutyReq.dependentRoot}

\* the responses that carry another dependent root
Mismatching ==
    {i \in 1..Len(dutyReq.responses) :
        /\ dutyReq.responses[i].kind = "ok"
        /\ dutyReq.responses[i].dependent_root # dutyReq.dependentRoot}

\* C19: the duties returned are the data of a response whose dependent_root
\* is the expected dependentRoot, never of one with another root; when no
\* response matches the call fails.
C19_OnlyMatchingData ==
    DutyDone =>
        /\ dutyReq.res.kind = "ok" =>
              /\ Matching = {Len(dutyReq.responses)}
              /\ dutyReq.res.data = dutyReq.responses[Len(dutyReq.responses)].data
              /\ dutyReq.res.data = DutyData(dutyReq.dependentRoot)
        /\ Matching = {} => dutyReq.res.kind = "err"

\* the duties were returned by a retry after a response with another root
C19_Witness ==
    /\ DutyDone
    /\ dutyReq.res.kind = "ok"
    /\ 1 \in Mismatching

\* C20: a response with another dependent root ends the call with the
\* dependent root mismatch; the duty request is not issued again.
C20_MismatchNotRetried ==
    \A i \in Mismatching :
        /\ i = Len(dutyReq.responses)
        /\ DutyDone
        /\ dutyReq.res = [kind |-> "err", error |-> "dependent root is not as expected"]

\* the request is issued again with the same expected root after a mismatch
MismatchRetried ==
    /\ 1 \in Mismatching
    /\ Len(dutyReq.responses) > 1

\* every response carried another root and the call failed with the error of
\* the last catch
MismatchReportedAsFailedRetries ==
    /\ DutyDone
    /\ Mismatching = 1..Len(dutyReq.responses)
    /\ dutyReq.res = FailedAfterRetries

------------------------------------------------------------------------------
(* Claims on getBlockInfoWithSlotAttestations                              *)

BlockInfoDone ==
    probe.pc = "done" /\ probe.op = "getBlockInfoWithSlotAttestations" /\ probe.res.kind = "ok"

\* the elements of a sequence
Elements(seq) == {seq[i] : i \in 1..Len(seq)}

\* the search probed slot + 1, slot + 2, ... and what it returned: with the
\* first block found at slot b the missed list is slot + 1 .. b - 1, without
\* a block it is all the slots probed; every missed slot was probed and holds
\* no block
BlockInfoSearch ==
    /\ \A i \in 1..Len(probe.probed) : probe.probed[i] = probe.slot + i
    /\ \A s \in Elements(probe.res.missedSlots) :
          s \in Elements(probe.probed) /\ s \notin blocks
    /\ probe.res.blockInfo # Undefined =>
          /\ probe.res.blockInfo.slot \in blocks
          /\ probe.res.blockInfo.slot = probe.probed[Len(probe.probed)]
          /\ probe.res.missedSlots =
                 bigintRange(probe.slot + 1, probe.res.blockInfo.slot)
          /\ \A s \in (probe.slot + 1)..(probe.res.blockInfo.slot - 1) : s \notin blocks
    /\ probe.res.blockInfo = Undefined =>
          /\ probe.res.missedSlots = probe.probed
          /\ \A s \in Elements(probe.probed) : s \notin blocks

\* C21: getBlockInfoWithSlotAttestations(slot) searches forward from slot + 1
\* over at most 8 slots and returns the first block found with the missed
\* list slot + 1 .. b - 1, or no block with the searched range as the missed
\* list; every missed slot was probed and had no block.
C21_SearchesEightSlots ==
    BlockInfoDone =>
        /\ BlockInfoSearch
        /\ Len(probe.probed) <= blockInfoMaxDeep
        /\ Len(probe.res.missedSlots) <= blockInfoMaxDeep

\* C21, amended: the search covers at most maxDeep + 1 = 9 slots, and without
\* a block the missed list holds these 9 slots.
C21_SearchesNineSlots ==
    BlockInfoDone =>
        /\ BlockInfoSearch
        /\ Len(probe.probed) <= blockInfoMaxDeep + 1
        /\ probe.res.blockInfo = Undefined =>
              /\ Len(probe.probed) = blockInfoMaxDeep + 1
              /\ probe.res.missedSlots = bigintRange(probe.slot + 1, probe.slot + blockInfoMaxDeep + 2)

\* no block in the slots searched
C21_Witness ==
    /\ BlockInfoDone
    /\ probe.res.blockInfo = Undefined
    /\ Len(probe.res.missedSlots) = blockInfoMaxDeep + 1

\* a block found after two missed slots
BlockInfoAfterMissed ==
    /\ BlockInfoDone
    /\ probe.res.blockInfo # Undefined
    /\ Len(probe.res.missedSlots) = 2

------------------------------------------------------------------------------
(* Claims about waitForNextFinalizedSlot and the cycle (SpecLoop)          *)

\* the slot of the latest finalized header
FinalizedSlot == SetMax(blocks)

\* { slotToWrite: 0n, stateRoot: '', slotNumber: 0n }
NoSlotReady == [kind |-> "ok", slotToWrite |-> 0, stateRoot |-> NoRoot, slotNumber |-> 0]

\* the positions of the loop inside waitForNextFinalizedSlot
WaitPcs == {"wait", "waitHeader", "waitTimer"}

\* the await of waitForNextFinalizedSlot has ended
Waited == pc \in WaitPcs /\ pc' \notin WaitPcs

\* the finalized header the call has read lies below the target
BelowTarget == latestFinalizedBeaconBlock.slotNumber < nextFinalizedSlot

\* C22: while the latest finalized header lies below the target,
\* waitForNextFinalizedSlot(target) answers slotToWrite = 0 whatever the API
\* would answer to a lookup of the target (it makes none); the cycle then
\* runs no processing, stats or alert step and the next cycle computes the
\* same target.
C22_NotFinalizedYet ==
    /\ [](pc = "waitHeader" => ~BelowTarget)
    /\ []((pc = "waitTimer" /\ BelowTarget) => call = NoCall)
    /\ [][(pc = "wait" /\ pc' # "wait" /\ latestFinalizedBeaconBlock'.slotNumber >= 0
              /\ latestFinalizedBeaconBlock'.slotNumber < nextFinalizedSlot)
             => pc' = "waitTimer"]_vars
    /\ [][(Waited /\ BelowTarget) =>
             /\ pc' = "calc"
             /\ waitRes' \in {NoSlotReady, [NoWait EXCEPT !.kind = "throw"]}
             /\ pc = "waitTimer" => waitRes' = NoSlotReady
             /\ latestSlotInDb' = latestSlotInDb
             /\ handed' = handed
             /\ processed' = processed
             /\ calculateNextFinalizedSlot' = nextFinalizedSlot]_vars

\* after an epoch was processed the next target is not finalized yet: the
\* wait gave slotToWrite = 0 and the cycle starts again with the same target
C22_Witness ==
    /\ pc = "calc"
    /\ waitRes = NoSlotReady
    /\ processed # {}
    /\ FinalizedSlot < nextFinalizedSlot
    /\ calculateNextFinalizedSlot = nextFinalizedSlot

\* what waitForNextFinalizedSlot(target) is to return once finality has
\* reached the target: the target's own block, or the nearest earlier block
\* under the target's slot number
ResolvedSlot(target) ==
    LET h == IF target \in blocks THEN Header(target)
             ELSE Header(SetMax({b \in blocks : b < target}))
    IN  [kind |-> "ok", slotToWrite |-> target, stateRoot |-> h.stateRoot,
         slotNumber |-> h.slotNumber]

\* C23: when finality has reached the target, waitForNextFinalizedSlot(target)
\* returns slotToWrite = slotNumber = target with the block's state root if
\* the target holds a block, and slotToWrite = target with the stateRoot and
\* slotNumber (< target) of the nearest earlier block if the target is missed;
\* it throws only when a header request failed with another error than 404.
C23_ResolvedTarget ==
    /\ []((pc = "waitHeader" /\ call.pc = "done" /\ call.res.kind = "err")
             => call.res.code = 500)
    /\ [][(Waited /\ ~BelowTarget /\ waitRes'.kind = "ok") =>
             /\ waitRes' = ResolvedSlot(nextFinalizedSlot)
             /\ nextFinalizedSlot \notin blocks => waitRes'.slotNumber < nextFinalizedSlot
             /\ pc' = "process"]_vars

\* a target two slots after the nearest earlier block was resolved
C23_Witness ==
    /\ pc = "process"
    /\ waitRes.slotToWrite = nextFinalizedSlot
    /\ waitRes.slotNumber = nextFinalizedSlot - 2
    /\ waitRes.stateRoot = Header(nextFinalizedSlot - 2).stateRoot
    /\ nextFinalizedSlot \notin blocks

\* a step of the cycle threw: the catch block has run and the loop is at the
\* top of the next cycle
CycleThrew ==
    /\ pc' = "calc"
    /\ \/ pc \in WaitPcs /\ waitRes'.kind = "throw"
       \/ pc = "process" /\ handed' \notin processed'
       \/ pc \in {"userStats", "otherStats", "finalize"}

\* C24: when a step of a cycle throws, the loop goes on and the next cycle
\* computes the same target slot as the failed cycle.
C24_SameTargetAfterThrow ==
    [][CycleThrew => calculateNextFinalizedSlot' = nextFinalizedSlot]_vars

\* the same, for the throws that happen before the epoch was written
C24_SameTargetAfterEarlyThrow ==
    [][(CycleThrew /\ pc \in WaitPcs \cup {"process"})
          => calculateNextFinalizedSlot' = nextFinalizedSlot]_vars

------------------------------------------------------------------------------
(* Claims about the alert cycle (SpecAlert), continued                     *)

\* no POST to the alertmanager is started in the step
NoNewPost == \A a \in AlertNames : Len(delivery'[a]) = Len(delivery[a])

\* the step is the failure of a POST in flight
PostFailed ==
    \E a \in AlertNames : \E i \in 1..Len(delivery[a]) :
        delivery[a][i].state = "pending" /\ delivery'[a][i].state = "failed"

\* C25: a send that finds the chain data more than one hour old, or no
\* alertmanager URL configured, evaluates no rule, fires no alert, leaves the
\* recorded alerts unchanged and returns.
C25_Suppressed ==
    [][(alertCycle.pc = "idle"
          /\ (alertCycle'.slotTimeDiff > maxSlotTimeDiff \/ baseUrl = ""))
          => /\ alertCycle'.pc = "idle"
             /\ alertCycle' # alertCycle => alertCycle'.outcome = "suppressed"
             /\ lastToSend' = Undefined
             /\ sentAlerts' = sentAlerts
             /\ NoNewPost]_vars

\* with an alertmanager configured and an alert recorded longer ago than the
\* default interval, a send was suppressed by the age of the data
C25_Witness ==
    /\ alertCycle.outcome = "suppressed"
    /\ alertCycle.slotTimeDiff > maxSlotTimeDiff
    /\ baseUrl # ""
    /\ sentAlerts["CriticalNegativeDelta"] # Undefined
    /\ now - sentAlerts["CriticalNegativeDelta"].timestamp > defaultInterval

\* the loop over the alerts has ended in the step
CycleEnded == alertCycle.pc # "idle" /\ alertCycle'.pc = "idle"

\* C26: a cycle whose evaluation or delivery of one rule fails still
\* evaluates every other rule of the list: the loop ends only after the last
\* rule.
C26_EveryRuleEvaluated ==
    [][CycleEnded => alertCycle.idx > Len(alerts)]_vars

\* the part of C26 about deliveries: the failure of a POST changes nothing in
\* the cycle, whose remaining rules are evaluated
C26_DeliveryFailureIsolated ==
    [][PostFailed
          => alertCycle' = alertCycle /\ sentAlerts' = sentAlerts]_vars

\* the POST of this cycle's first alert failed while the second rule was
\* still to be evaluated
DeliveryFailedDuringCycle ==
    /\ alertCycle.pc \in {"operators", "stats"}
    /\ alertCycle.idx = 2
    /\ alertCycle.count = 1
    /\ delivery[alerts[1]] # NoPost
    /\ delivery[alerts[1]][Len(delivery[alerts[1]])].state = "failed"

\* C27: no failure of a rule evaluation or of a delivery leaves send: a cycle
\* that has started ends with the alerts counted or with the error logged,
\* and a failed POST is logged without effect on the cycle.
C27_SendNeverThrows ==
    /\ [](alertCycle.outcome \in {"none", "suppressed", "sent", "error"})
    /\ [][CycleEnded => alertCycle'.outcome \in {"sent", "error"}]_vars
    /\ [][PostFailed
             => alertCycle' = alertCycle]_vars

\* a send ended in its catch block after the POST of an earlier send failed
C27_Witness ==
    /\ alertCycle.outcome = "error"
    /\ \E a \in AlertNames : \E i \in 1..Len(delivery[a]) : delivery[a][i].state = "failed"

------------------------------------------------------------------------------
(* Claims on getChunkedAttesterDuties                                      *)

\* the requests that were answered, in the order they were made
RECURSIVE Answered(_)
Answered(log) ==
    IF log = <<>> THEN <<>>
    ELSE IF log[1].ok THEN <<log[1]>> \o Answered(Tail(log))
    ELSE Answered(Tail(log))

RECURSIVE ConcatChunks(_)
ConcatChunks(entries) ==
    IF entries = <<>> THEN <<>>
    ELSE entries[1].chunk \o ConcatChunks(Tail(entries))

\* C29: getChunkedAttesterDuties submits every index in exactly one chunk of
\* at most ETH2_POST_REQUEST_CHUNK_SIZE indexes, returns the chunk results
\* concatenated in chunk order, leaves the caller's list as it was, and
\* repeats only the chunk that failed, never one that was answered.
C29_Chunked ==
    /\ dutyReq.pc \in {"loop", "request", "done"} =>
          /\ dutyReq.indexes = dutyReq.passed
          /\ \A i \in 1..Len(dutyReq.log) :
                /\ Len(dutyReq.log[i].chunk) \in 1..dutyReq.size
                /\ dutyReq.log[i].chunk =
                       SubSeq(dutyReq.passed, dutyReq.log[i].at + 1,
                              dutyReq.log[i].at + Len(dutyReq.log[i].chunk))
                /\ \A j \in 1..(i - 1) :
                      /\ dutyReq.log[j].at <= dutyReq.log[i].at
                      /\ dutyReq.log[j].ok => dutyReq.log[j].at < dutyReq.log[i].at
          /\ dutyReq.result = DutiesOf(ConcatChunks(Answered(dutyReq.log)))
    /\ (dutyReq.pc = "done" /\ dutyReq.res.kind = "ok") =>
          /\ ConcatChunks(Answered(dutyReq.log)) = dutyReq.passed
          /\ dutyReq.res.data = DutiesOf(dutyReq.passed)

\* three indexes were asked for in two chunks, the second of which was
\* answered at the second request
C29_Witness ==
    /\ dutyReq.pc = "done"
    /\ dutyReq.res.kind = "ok"
    /\ Len(dutyReq.passed) = 3
    /\ dutyReq.size = 2
    /\ Len(dutyReq.log) = 3
    /\ ~dutyReq.log[2].ok

------------------------------------------------------------------------------
(* Claims on alertRule (SpecAlertRule)                                     *)

RuleApplied == lastToSend # Undefined

\* the operator has an entry in the ruleResult
Appears(name) ==
    \E i \in 1..Len(lastToSend.ruleResult) : lastToSend.ruleResult[i].operator = name

\* the operator runs more validators than the floor
AboveFloor(name) ==
    \E i \in 1..Len(lastToSend.operators) :
        /\ lastToSend.operators[i].nos_name = name
        /\ lastToSend.operators[i].active_ongoing > CRITICAL_ALERTS_MIN_VAL_COUNT

\* the operator's bad count is more than a third of its active validators
BadOverActive(name) ==
    \E i \in 1..Len(lastToSend.operators), j \in 1..Len(lastToSend.stats) :
        /\ lastToSend.operators[i].nos_name = name
        /\ lastToSend.stats[j].nos_name = name
        /\ 3 * (IF lastToSend.alertname = "CriticalNegativeDelta"
                THEN lastToSend.stats[j].neg_count
                ELSE lastToSend.stats[j].missed)
              > lastToSend.operators[i].active_ongoing

\* the operator's bad count is more than a third of what the rule compares
\* it with: its active validators (negative delta), its proposals (missed
\* proposes)
BadOverBase(name) ==
    \E i \in 1..Len(lastToSend.operators), j \in 1..Len(lastToSend.stats) :
        /\ lastToSend.operators[i].nos_name = name
        /\ lastToSend.stats[j].nos_name = name
        /\ IF lastToSend.alertname = "CriticalNegativeDelta"
           THEN 3 * lastToSend.stats[j].neg_count > lastToSend.operators[i].active_ongoing
           ELSE 3 * lastToSend.stats[j].missed > lastToSend.stats[j].all

\* C30 as stated: an operator appears in the ruleResult iff its active
\* validator count is above CRITICAL_ALERTS_MIN_VAL_COUNT and its bad count
\* exceeds a third of its active validator count.
C30_ThirdOfActive ==
    RuleApplied =>
        \A name \in Operators : Appears(name) <=> (AboveFloor(name) /\ BadOverActive(name))

\* C30 amended: an operator appears in the ruleResult iff its active
\* validator count is above CRITICAL_ALERTS_MIN_VAL_COUNT and its bad count
\* exceeds a third of its active validator count (CriticalNegativeDelta) or a
\* third of its proposals (CriticalMissedProposes); an operator at or below
\* the floor never appears.
C30_ThirdOfBase ==
    RuleApplied =>
        \A name \in Operators : Appears(name) <=> (AboveFloor(name) /\ BadOverBase(name))

\* one operator above the floor and over the third appears, the other, over
\* the third but at the floor, does not
C30_Witness ==
    /\ RuleApplied
    /\ \E a \in Operators, b \in Operators :
          /\ Appears(a) /\ AboveFloor(a)
          /\ ~Appears(b) /\ ~AboveFloor(b) /\ BadOverBase(b)

\* an operator that missed its only proposal appears although that is not
\* more than a third of its active validators
MissedProposesOverProposals ==
    /\ RuleApplied
    /\ lastToSend.alertname = "CriticalMissedProposes"
    /\ \E name \in Operators : Appears(name) /\ ~BadOverActive(name)

------------------------------------------------------------------------------
(* Claims about the order of the steps of a cycle (SpecLoop)               *)

\* the steps of the pipeline of a slot, in the order of startLoop
PipelineSteps == <<"process", "userStats", "otherStats", "finalize", "alerts">>

PipelinePcs == {PipelineSteps[i] : i \in 1..Len(PipelineSteps)}

\* the steps of a cycle follow each other in the order of startLoop, each
\* entered from the one before it, and the target is computed only at the
\* top of the loop, when no step of a cycle is running
C31_StepsInOrder ==
    [][/\ \A i \in 2..Len(PipelineSteps) :
             (pc' = PipelineSteps[i] /\ pc # pc') => pc = PipelineSteps[i - 1]
       /\ (pc' = "userStats" /\ pc # pc') => latestSlotInDb' = waitRes.slotToWrite
       /\ (pc' = "process" /\ pc # pc') => pc = "waitHeader"
       /\ nextFinalizedSlot' # nextFinalizedSlot => pc = "calc"]_vars

\* C31: the steps of the cycle for slot S run in order, each after the one
\* before it succeeded, and the target for the next epoch is not computed
\* until alert sending for S has returned: when the pipeline of S ends and
\* the next target lies beyond S, it ended with the return of alert sending.
C31_NextEpochAfterAlerts ==
    [][(/\ pc \in PipelinePcs
        /\ pc' = "calc"
        /\ calculateNextFinalizedSlot' > waitRes.slotToWrite)
          => pc = "alerts"]_vars

\* the pipeline of a slot has reached alert sending
AlertsReached ==
    /\ pc = "alerts"
    /\ handed = waitRes.slotToWrite
    /\ latestSlotInDb = handed

------------------------------------------------------------------------------
(* Claims about clearing the SummaryService (SpecSummary)                  *)

ClearCalled == opCount' = opCount + 1 /\ lastOp'.op = "clear"

\* C32: after clear() get(v) is absent for every validator and
\* valuesToWrite() is empty; after clearMeta(), setMeta(p) followed by
\* getMeta() yields exactly p, with no field of the meta held before.
C32_NothingStale ==
    /\ [](lastOp.op = "clearMeta" => getMeta = Undefined)
    /\ [][/\ ClearCalled =>
               /\ \A v \in ValidatorIds : get(v)' = Undefined
               /\ valuesToWrite(storage', inserted') = <<>>
          /\ (SetMetaCalled /\ lastOp.op = "clearMeta") => getMeta' = lastOp'.val]_vars

\* setMeta was called on a cleared meta
C32_Witness ==
    /\ lastOp.op = "setMeta"
    /\ lastOp.nullish
    /\ getMeta = lastOp.val

------------------------------------------------------------------------------
(* Claims on getDutyDependentRoot (SpecDutyRoot)                           *)

DutyRootCalled == call.op = "getDutyDependentRoot" /\ call.pc = "done"

\* the block root of the nearest block at or before the slot
NearestRootAtOrBefore(slot) == Header(SetMax({b \in blocks : b <= slot})).blockRoot

\* C33 as stated: the dependent root for epoch e is the block root of the
\* nearest non-missed header at or before slot 32 * e - 32.
C33_FromEpochBack ==
    (DutyRootCalled /\ call.res.kind = "ok") =>
        call.res.header.blockRoot
            = NearestRootAtOrBefore(slotsPerDutyEpoch * call.epoch - slotsPerDutyEpoch)

\* C33 amended: the dependent root for epoch e is the block root of the
\* nearest non-missed header at or before slot 32 * e - 1, the last slot
\* before the start of epoch e, found with one lookup per slot from that
\* slot backward, and it is returned unless a lookup of the backward search
\* fails with an error other than 404, which is thrown.
C33_FromSlotBeforeEpoch ==
    DutyRootCalled =>
        /\ call.res.kind = "ok" =>
              /\ call.res.header.blockRoot
                    = NearestRootAtOrBefore(slotsPerDutyEpoch * call.epoch - 1)
              /\ call.lookups
                    = slotsPerDutyEpoch * call.epoch - call.res.header.slotNumber
        /\ call.res.kind = "err" => call.res = Err(500) /\ call.last = Err(500)

\* the last two slots before the epoch are missed and the root of the third
\* last is returned
C33_Witness ==
    /\ DutyRootCalled
    /\ call.res.kind = "ok"
    /\ (slotsPerDutyEpoch * call.epoch - 1) \notin blocks
    /\ (slotsPerDutyEpoch * call.epoch - 2) \notin blocks
    /\ call.res.header.blockRoot = slotsPerDutyEpoch * call.epoch - 3

------------------------------------------------------------------------------
(* Claims about the search for the including block (SpecAtt)               *)

\* the row is the one a search that stops at the nearest including block
\* writes: in_block names that block and attested follows its distance
FoundNearestIncluding(row) ==
    IncludingBlocks(row) # {} =>
        LET B == SetMin(IncludingBlocks(row)) IN
        /\ row.in_block = B
        /\ row.attested <=>
              B - row.slot - Cardinality(MissedBetween(row, B))
                  <= ATTESTATION_MAX_INCLUSION_IN_BLOCK_DELAY

\* C34: whenever some candidate block above the duty's slot carries an
\* attestation for the duty's (slot, committee) with the validator's position
\* set, the search finds it, also when the block carries several attestations
\* for that (slot, committee) and only a later one has the position set.
C34_IncludingBlockFound ==
    \A i \in 1..Len(rows) : FoundNearestIncluding(rows[i])

\* the same on inputs whose blocks carry at most one attestation per
\* (slot, committee)
IncludingBlockFoundOneAggregate ==
    OneAggregatePerCommittee => \A i \in 1..Len(rows) : FoundNearestIncluding(rows[i])

\* a duty whose including block carries the position in its second
\* attestation only is written as not attested
LaterAggregateOverlooked ==
    \E i \in 1..Len(rows) :
        /\ IncludingBlocks(rows[i]) = {rows[i].slot + 1}
        /\ ~rows[i].attested

\* C39: in every row written, in_block names a block only if that block
\* carries the validator's committee position set for the duty; when no
\* candidate block includes the validator, in_block is NULL.
C39_InBlockOnlyIfIncluded ==
    \A i \in 1..Len(rows) :
        /\ rows[i].in_block # NULL => rows[i].in_block \in IncludingBlocks(rows[i])
        /\ IncludingBlocks(rows[i]) = {} => rows[i].in_block = NULL

\* in_block names the last block searched that carries an attestation of the
\* duty's committee, whatever its bits, and is NULL when there is none
InBlockIsCommitteeBlock ==
    \A i \in 1..Len(rows) :
        /\ rows[i].in_block # NULL => rows[i].in_block \in CommitteeBlocks(rows[i])
        /\ CommitteeBlocks(rows[i]) = {} => rows[i].in_block = NULL

\* a duty no block includes is written with a block in in_block
InBlockWithoutInclusion ==
    \E i \in 1..Len(rows) :
        /\ IncludingBlocks(rows[i]) = {}
        /\ rows[i].in_block # NULL

------------------------------------------------------------------------------
(* Claims about the order of the operators in a ruleResult (SpecSendRule)  *)

\* the ruleResults that hold the same operator-to-payload mapping
SameMapping(ruleResult, other) ==
    /\ Len(ruleResult) = Len(other)
    /\ {ruleResult[i] : i \in 1..Len(ruleResult)} = {other[i] : i \in 1..Len(other)}

\* C35: for any two ruleResults holding the same operator-to-payload mapping
\* in different iteration orders, with the same recorded alert and the same
\* current time, sendRule returns the same value.
C35_OrderIndependent ==
    evaluated =>
        \A other \in RuleResults(lastToSend.alertname) :
            SameMapping(lastToSend.ruleResult, other) =>
                sendRule(lastToSend.alertname, other, lastToSend.prev, lastToSend.at)
                    = lastToSend.send

\* a ruleResult is sent before the default interval has passed because its
\* second operator worsened, the first one not
C35_Witness ==
    /\ evaluated
    /\ Len(lastToSend.ruleResult) = 2
    /\ elapsed <= defaultInterval
    /\ ~Worsened(lastToSend.ruleResult[1])
    /\ Worsened(lastToSend.ruleResult[2])
    /\ lastToSend.send

------------------------------------------------------------------------------
(* Claims about the rate of the alerts (SpecAlert)                         *)

\* the shortest time after a recorded send at which the rule sends again
escalationInterval(alertname) ==
    IF alertname = "CriticalMissedProposes" THEN defaultInterval ELSE ifIncreasedInterval

\* C36: over any sequence of alert cycles sendRule never returns true while
\* now - lastSent is at or below the escalation interval of the alert, and
\* two consecutive recorded sends of an alert are more than that interval
\* apart.
C36_RateLimit ==
    /\ []((evaluated /\ lastToSend.send)
             => elapsed > escalationInterval(lastToSend.alertname))
    /\ [][\A a \in AlertNames :
             (sentAlerts'[a] # sentAlerts[a] /\ sentAlerts[a] # Undefined)
                => sentAlerts'[a].timestamp - sentAlerts[a].timestamp
                      > escalationInterval(a)]_vars

\* an alert is sent and recorded a second time, more than the escalation
\* interval and at most the default interval after its recorded send
C36_Witness ==
    /\ evaluated
    /\ lastToSend.send
    /\ lastToSend.prev # Undefined
    /\ elapsed > ifIncreasedInterval
    /\ elapsed <= defaultInterval
    /\ sentAlerts[lastToSend.alertname].timestamp = lastToSend.at
    /\ lastToSend.prev.timestamp < lastToSend.at

\* the same limit on sendRule for every recorded alert and every ruleResult
SendOnlyAfterInterval ==
    (evaluated /\ lastToSend.send) => elapsed > escalationInterval(lastToSend.alertname)

------------------------------------------------------------------------------
(* Claims about what is handed to processing (SpecLoop)                    *)

\* C37: whenever waitForNextFinalizedSlot returns slotToWrite > 0,
\* slotToWrite is the requested target and slotNumber <= slotToWrite <= the
\* slot of the latest finalized header seen by the call; and a target
\* computed by calculateNextFinalizedSlot is always above latestSlotInDb.
C37_OnlyFinalized ==
    /\ [](calculateNextFinalizedSlot > latestSlotInDb)
    /\ [](pc = "wait" => nextFinalizedSlot > latestSlotInDb)
    /\ [][(Waited /\ waitRes'.kind = "ok" /\ waitRes'.slotToWrite > 0) =>
             /\ waitRes'.slotToWrite = nextFinalizedSlot
             /\ waitRes'.slotNumber <= waitRes'.slotToWrite
             /\ waitRes'.slotToWrite <= latestFinalizedBeaconBlock.slotNumber]_vars

\* a missed target below the latest finalized block was resolved to the
\* nearest earlier block
C37_Witness ==
    /\ pc = "process"
    /\ waitRes.slotToWrite = nextFinalizedSlot
    /\ waitRes.slotNumber < waitRes.slotToWrite
    /\ waitRes.slotToWrite < FinalizedSlot
    /\ latestSlotInDb < waitRes.slotNumber

------------------------------------------------------------------------------
(* Claims about the failures of a header lookup (SpecLookup)               *)

\* the latest header lookup of the running call failed with another error
\* than 404
LookupFailed(c) == c.lookups > 0 /\ c.last.kind = "err" /\ c.last.code # 404

HeaderOrPreviousRuns == call.op = "getBeaconBlockHeaderOrPreviousIfMissed"

\* C38: getBeaconBlockHeaderOrPreviousIfMissed, getNextNotMissedBlockHeader
\* and getPreviousNotMissedBlockHeader start or continue missed-slot probing
\* only on a 404 answer; any other failure of a header lookup is rethrown at
\* once, with no further slot probed and no (header, isMissed) produced.
C38_ProbingOnlyOn404 ==
    /\ probe.pc = "running" =>
          \A i \in 1..Len(probe.answers) : probe.answers[i] = Err(404)
    /\ probe.pc = "done" =>
          /\ \A i \in 1..(Len(probe.answers) - 1) : probe.answers[i] = Err(404)
          /\ (probe.answers[Len(probe.answers)].kind = "err"
                /\ probe.answers[Len(probe.answers)].code # 404) =>
                 /\ probe.res = probe.answers[Len(probe.answers)]
                 /\ probe.res.header = NoHeader
    /\ HeaderOrPreviousRuns =>
          /\ call.pc = "next" =>
                /\ call.last = Err(404)
                /\ call.lookups = 1 + (call.probeSlot - call.slot)
          /\ call.pc = "walk" => call.last.kind = "ok"
          /\ LookupFailed(call) =>
                /\ call.pc = "done"
                /\ call.res = call.last
                /\ call.res.header = NoHeader

\* a backward search with depth left ended at its second lookup, which
\* failed with another error than 404
C38_Witness ==
    /\ probe.pc = "done"
    /\ probe.op = "previous"
    /\ Len(probe.probed) = 2
    /\ probe.maxDeep = 2
    /\ probe.answers = <<Err(404), Err(500)>>
    /\ probe.res = Err(500)
    /\ probe.slot >= 2

\* getBeaconBlockHeaderOrPreviousIfMissed rethrew the failure of its lookup
\* of a missed slot without searching
HeaderOrPreviousRethrown ==
    /\ HeaderOrPreviousRuns
    /\ call.pc = "done"
    /\ call.slot \notin blocks
    /\ call.lookups = 1
    /\ call.res = Err(500)

\* the forward search of getBeaconBlockHeaderOrPreviousIfMissed ended at a
\* lookup that failed with another error than 404, after lookups answered
\* 404
HeaderOrPreviousSearchRethrown ==
    /\ HeaderOrPreviousRuns
    /\ call.pc = "done"
    /\ call.lookups = 3
    /\ call.someNextBlock = NoHeader
    /\ call.res = Err(500)

\* the slot answered 404, further slots were finalized while the catch
\* block awaited its first lookup, and that lookup found the slot's block:
\* the call goes through the catch block and answers isMissed false
HeaderOrPreviousOvertakenInCatch ==
    /\ HeaderOrPreviousRuns
    /\ call.pc = "done"
    /\ call.lookups = 2
    /\ call.res.kind = "ok"
    /\ call.res.header.slotNumber = call.slot
    /\ ~call.res.isMissed

------------------------------------------------------------------------------
(* Claims about the registry file source (SpecRegistry)                    *)

\* every operator of the held data has a non-empty name and at least one key
HeldDataValid ==
    registry.data # Undefined =>
        \A i \in 1..Len(registry.data.operators.e) :
            /\ registry.data.operators.e[i].name # ""
            /\ registry.data.operators.e[i].keys # Undefined
            /\ Len(registry.data.operators.e[i].keys.e) >= 1

\* the step is a call of update
UpdateCalled == registry'.clock = registry.clock + 1

\* an update that throws leaves the held data and the timestamp of the last
\* success as they were, one that returns holds the file it read, and a file
\* that fails validation makes update throw
UpdateKeepsOrReplaces ==
    UpdateCalled =>
        /\ registry'.last.threw =>
              /\ registry'.data = registry.data
              /\ registry'.lastSuccessDataReadTimestamp = registry.lastSuccessDataReadTimestamp
        /\ ~registry'.last.threw =>
              /\ registry'.data = registry'.last.file
              /\ registry'.lastSuccessDataReadTimestamp = Prim(registry'.clock)
        /\ ~isValid(registry'.last.file) => registry'.last.threw

\* C40: after any sequence of update() calls the held registry data is that
\* of the last successful update and every operator in it has a non-empty
\* name and at least one key; an update() whose file fails validation throws
\* and leaves the held data and the last-success timestamp unchanged.
C40_RegistryValid ==
    /\ []HeldDataValid
    /\ [][UpdateKeepsOrReplaces]_vars

\* the part of C40 about what an update leaves
FailedUpdateKeepsRegistry == [][UpdateKeepsOrReplaces]_vars

\* a second update threw on an invalid file and the data of the first is
\* still held
RegistryKeptAfterFailedUpdate ==
    /\ registry.last.op = "update"
    /\ registry.last.threw
    /\ ~isValid(registry.last.file)
    /\ registry.data # Undefined
    /\ registry.lastSuccessDataReadTimestamp.v < registry.clock

\* the held data has an operator without a name
UnnamedOperatorHeld ==
    /\ registry.data # Undefined
    /\ \E i \in 1..Len(registry.data.operators.e) :
          registry.data.operators.e[i].name = ""

==============================================================================
